---- MODULE Spec2Model ----
(***************************************************************************)
(* Model of the sip-worker control plane: the tab-resident SipClient       *)
(* (Edge), the SharedWorker (Hub) with its ClientManager, MessageHandler   *)
(* and SipManager, and the worker-side SessionDescriptionHandler proxy.    *)
(*                                                                         *)
(* The repository holds two builds of the worker entry point:              *)
(*   "index"   src/src/worker/index.ts   (MessageHandler.handleRequest of  *)
(*             src/src/worker/message-handler.ts)                          *)
(*   "part015" src/unnamed/part_015      (addHandler based dispatch)       *)
(* hubBuild selects the build; it never changes during a behaviour.        *)
(* Build "index" runs the SipManager of src/unnamed/part_004 (setCallbacks, *)
(* connect() waiting for transport.onConnect); build "part015" runs the    *)
(* SipManager of src/src/worker/message-handler.ts (setClientManager,      *)
(* isInitialized, transport.stateChange listener).                         *)
(*                                                                         *)
(* Promises are modelled by the sequence of calls made to their resolve /  *)
(* reject functions: a JavaScript promise keeps the first call, so a       *)
(* second entry in the sequence is a second settlement attempt.            *)
(*                                                                         *)
(* The SIP stack (sip.js UserAgent, Transport, Registerer, Inviter) is the *)
(* environment: start() on a started UserAgent resolves at once, a         *)
(* transport attempt ends connected or failed, a REGISTER in flight ends   *)
(* accepted or rejected, an INVITE ends accepted or rejected. A UserAgent  *)
(* that was replaced without being stopped is taken to stay silent.        *)
(***************************************************************************)
EXTENDS Integers, Sequences, FiniteSets, TLC

\* The Edges (tabs) of the model.
Clients == {"c1", "c2"}

\* The two builds of the worker entry point.
HubBuilds == {"index", "part015"}

\* request() calls per Edge.
MaxRequests == 1

\* Calls of each of initializeSip / connectSip / registerSip per Edge.
MaxLifecycle == 1

\* Payloads of REQUEST envelopes: {message:"hi"} and a payload without a
\* message field.
Payloads == {"msg_hi", "no_msg"}

\* Actions a page passes to request().
Actions == {"echo", "frobnicate"}

\* The Edges whose page drives the SIP lifecycle (initializeSip, connectSip,
\* registerSip, makeCall); every Edge may initialize, request and close.
SipUsers == {"c1"}

\* SipConfig values: complete, a required field missing, an unparsable uri.
Configs == {"ok", "missing", "badUri"}

\* The sessions the SIP stack sets up; a session's handler gets the uuid of
\* its constructor as sessionId, so the handler is named by its session.
Sessions == {"s1"}

\* Session-description operations the SIP stack asks of each handler, the
\* CLOSE that close() sends not counted.
MaxSdpRequests == 1

\* Envelopes a page has posted that the Hub has not handled yet.
MaxInFlight == 1

\* Candidates a handler collects.
MaxCandidates == 2

VARIABLES
  hubBuild,          \* which worker entry point is running
  \* ---- SipClient (one per Edge) ----
  port,              \* this.port is defined
  connected,         \* this.connected
  pendingRequests,   \* this.pendingRequests: keys in insertion order
  timers,            \* live setTimeout handles, named by the key they guard
  requestCounter,    \* this.requestCounter
  sipInitialized, sipConnected, sipRegistered,
  promises,          \* key -> sequence of settle calls on the returned promise
  initCalled,        \* initialize() has been called
  closeCalled,       \* close() has been called with a port
  notReady,          \* makeCall() was rejected with "SIP not ready"
  \* ---- channels ----
  e2h,               \* Edge -> Hub, FIFO per Edge
  h2e,               \* Hub -> Edge, FIFO per Edge
  \* ---- ClientManager ----
  clients,           \* this.clients: ids in insertion order
  \* ---- SipManager and SIP stack ----
  userAgent,         \* sipManager.userAgent is defined
  initialized,       \* sipManager._isInitialized / sipManager.initialized
  uaStarted,         \* the UserAgent is in state Started
  transportState,    \* userAgent.transport.state
  isConnected,       \* sipManager.isConnected (part_004)
  wrappers,          \* part_004 connect(): the onConnect overrides created
  top,               \* part_004: index in wrappers of transport.onConnect, 0 = the listener of _setupUserAgentListeners
  startWaiters,      \* part015: handleSipConnect tasks awaiting userAgent.start()
  onConnectedTarget, \* part015: receiver of callbacks.onConnected, "all" or a clientId
  registererState,   \* "none" (no registerer) or the RegistererState
  registererStale,   \* the registerer belongs to a replaced UserAgent
  registerInFlight,  \* a REGISTER was sent and has no final response yet
  invites,           \* part015: handleMakeCall tasks awaiting inviter.invite()
  autoReconnect,     \* part_004: config.autoReconnect of the last initialize()
  reconnectTimers,   \* part_004: armed 5 s timeouts of transport.onDisconnect
  disconnectCalled,  \* part_004: disconnect() has stopped the UserAgent
  callSessions,      \* part015: the sessions handleMakeCall listens to: client, callId, SessionState
  callUpdates,       \* part015: per callId, the states of the CALL_UPDATE envelopes handleMakeCall passed to sendToClient
  \* ---- WorkerSessionDescriptionHandlerFactory and its handlers ----
  activeSessions,    \* per session: the clientId key it is stored under, "none" before create()
  sdhClientId,       \* handler.clientId, "" while undefined
  sdhClosed,         \* handler.closed
  sdhPending,        \* handler.pendingRequests: request ids in insertion order
  sdhTimers,         \* live request timers of the handler
  sdhPromises,       \* request id -> settle calls on the promise of _sendSdpRequest
  iceCandidates,     \* handler.iceCandidates
  connectionState,   \* handler.connectionState
  trickleCandidates, \* handler.trickleCandidates
  localDescription,  \* handler.localDescription, NoDescription while undefined
  remoteDescription, \* handler.remoteDescription, NoDescription while undefined
  descTask,          \* the getDescription() call of the handler and the request it awaits
  descPromise,       \* settle calls on the promise getDescription() returned
  closedRejections,  \* the methods that returned Promise.reject on the closed handler
  iceGatheringState, \* handler.iceGatheringState
  pcGathering,       \* per Edge: iceGatheringState of the page's RTCPeerConnection
  gatheringPolls,    \* a checkState timeout of _waitForIceGathering() is scheduled
  \* ---- observation ----
  received           \* per SipUser: lifecycle envelopes handled, in order

edgeVars == <<port, connected, pendingRequests, timers, requestCounter,
              sipInitialized, sipConnected, sipRegistered, promises,
              initCalled, closeCalled, notReady>>
chanVars == <<e2h, h2e>>
reconnectVars == <<autoReconnect, reconnectTimers, disconnectCalled>>
callVars == <<callSessions, callUpdates>>
sipVars  == <<userAgent, initialized, uaStarted, transportState, isConnected,
              wrappers, top, startWaiters, onConnectedTarget, registererState,
              registererStale, registerInFlight, invites, reconnectVars,
              callVars>>
descVars == <<trickleCandidates, localDescription, remoteDescription, descTask,
              descPromise, closedRejections>>
iceVars == <<iceGatheringState, pcGathering, gatheringPolls>>
bridgeVars == <<activeSessions, sdhClientId, sdhClosed, sdhPending, sdhTimers,
                sdhPromises, iceCandidates, connectionState, descVars, iceVars>>
vars == <<hubBuild, edgeVars, chanVars, clients, sipVars, bridgeVars, received>>

----------------------------------------------------------------------------
\* Keys of pendingRequests and the promises they stand for.

Key(kind, n) == [kind |-> kind, n |-> n]
NoKey == Key("none", 0)
InitKey == Key("initialize", 0)

\* Array.from(map.keys()).filter(k => k.startsWith(prefix))
KeysOfKind(seq, kind) == SelectSeq(seq, LAMBDA k : k.kind = kind)

InSeq(x, seq) == \E i \in 1..Len(seq) : seq[i] = x

\* Map.delete(key)
Remove(seq, x) == SelectSeq(seq, LAMBDA k : k # x)

\* Map.set(key, ...): a new key is appended, an existing key keeps its place.
MapSet(seq, x) == IF InSeq(x, seq) THEN seq ELSE Append(seq, x)

\* Number of promises of a kind an Edge has created so far.
Issued(c, kind) == Cardinality({k \in DOMAIN promises[c] : k.kind = kind})

\* One call of a promise's resolve (ok) or reject (~ok) function.
Call(by, ok, value) == [by |-> by, ok |-> ok, value |-> value]

Settle(prom, key, call) == [prom EXCEPT ![key] = Append(@, call)]

NewPromise(prom, key) == (key :> << >>) @@ prom

----------------------------------------------------------------------------
\* Envelopes. Every envelope has the same fields so that they can be compared.

Envelope(type, clientId, requestId, action, payload) ==
  [type |-> type, clientId |-> clientId, requestId |-> requestId,
   action |-> action, payload |-> payload]

\* payload of Hub -> Edge envelopes
Payload(requestId, success, state, error, data, totalClients) ==
  [requestId |-> requestId, success |-> success, state |-> state,
   error |-> error, data |-> data, totalClients |-> totalClients]

NoPayload == Payload(NoKey, "undefined", "", "", "", 0)

\* JavaScript truthiness of payload.success
Truthy(success) == success = "true"

----------------------------------------------------------------------------
\* ClientManager (src/unnamed/part_011)

\* A hasClient that only tests that a clientId is given, as the port's
\* listener does
hasClientId(reg, c) == c # ""

\* hasClient(clientId)
hasClient(reg, c) == InSeq(c, reg)

\* registerClient: Map.set(clientId, port)
registerClient(reg, c) == MapSet(reg, c)

\* unregisterClient: Map.delete(clientId) when present
unregisterClient(reg, c) == IF hasClient(reg, c) THEN Remove(reg, c) ELSE reg

\* A count taken before the admission or removal is applied: the registry
\* size with the client of the change still counted.
countBeforeChange(reg) == Len(reg) + 1

\* getClientCount()
getClientCount(reg) == Len(reg)

\* port.postMessage on the Hub's end of Edge c's channel: an envelope posted
\* to a port whose Edge end was closed is lost.
PostToEdge(q, c, m) == IF port[c] THEN [q EXCEPT ![c] = Append(@, m)] ELSE q

\* sendToClient(clientId, message): false (nothing posted) if the id is unknown
sendToClient(q, reg, c, m) == IF hasClient(reg, c) THEN PostToEdge(q, c, m) ELSE q

\* broadcastToAllClients(message)
broadcastToAllClients(q, reg, m) ==
  [d \in Clients |-> IF hasClient(reg, d) /\ port[d] THEN Append(q[d], m) ELSE q[d]]

\* sendResponse(clientId, requestId, data, success = true)
sendResponse(q, reg, c, requestId, data) ==
  sendToClient(q, reg, c,
    Envelope("RESPONSE", "", NoKey, "", Payload(requestId, "true", "", "", data, 0)))

\* sendErrorResponse(clientId, requestId, error)
sendErrorResponse(q, reg, c, requestId, error) ==
  sendToClient(q, reg, c,
    Envelope("RESPONSE", "", NoKey, "", Payload(requestId, "false", "", error, "", 0)))

----------------------------------------------------------------------------
\* SipClient (src/src/client/sip-client.ts)

\* A timer callback that rejects and leaves the entry in the map.
keepOnTimeout(seq, key) == seq

\* request(), timer callback: this.pendingRequests.delete(requestId)
deleteOnTimeout(seq, key) == Remove(seq, key)

\* A handleResponse that settles and leaves the entry in the map.
keepOnResponse(seq, key) == seq

\* handleResponse: this.pendingRequests.delete(requestId)
deleteOnResponse(seq, key) == Remove(seq, key)

\* A close() that leaves the timers of the pending entries armed.
keepTimeouts(ts, seq) == ts

\* close(): clearTimeout(pending.timeoutId) for every pending entry
clearTimeouts(ts, seq) == ts \ {seq[i] : i \in 1..Len(seq)}

\* sendMessage(message): posts only with a port and connected; adds clientId
sendMessage(q, c, m) ==
  IF port[c] /\ connected[c]
  THEN [q EXCEPT ![c] = Append(@, [m EXCEPT !.clientId = c])]
  ELSE q

\* initialize(): opens the port, arms connectionTimeout, posts CLIENT_CONNECTED
\* on the raw port and stores the resolvers under "initialize".
\* The page calls initialize() once per SipClient.
initialize(c) ==
  /\ ~initCalled[c]
  /\ initCalled' = [initCalled EXCEPT ![c] = TRUE]
  /\ port' = [port EXCEPT ![c] = TRUE]
  /\ timers' = [timers EXCEPT ![c] = @ \cup {InitKey}]
  /\ e2h' = [e2h EXCEPT ![c] =
               Append(@, Envelope("CLIENT_CONNECTED", c, NoKey, "", ""))]
  /\ pendingRequests' = [pendingRequests EXCEPT ![c] = MapSet(@, InitKey)]
  /\ promises' = [promises EXCEPT ![c] = NewPromise(@, InitKey)]
  /\ UNCHANGED <<hubBuild, bridgeVars, connected, requestCounter, sipInitialized,
                 sipConnected, sipRegistered, closeCalled, notReady, h2e,
                 clients, sipVars, received>>

\* request(action, payload, timeout)
request(c, action, payload) ==
  /\ connected[c] /\ port[c]
  /\ requestCounter[c] < MaxRequests
  /\ LET key == Key("req", requestCounter[c] + 1) IN
     /\ requestCounter' = [requestCounter EXCEPT ![c] = @ + 1]
     /\ timers' = [timers EXCEPT ![c] = @ \cup {key}]
     /\ pendingRequests' = [pendingRequests EXCEPT ![c] = MapSet(@, key)]
     /\ promises' = [promises EXCEPT ![c] = NewPromise(@, key)]
     /\ e2h' = sendMessage(e2h, c, Envelope("REQUEST", "", key, action, payload))
  /\ UNCHANGED <<hubBuild, bridgeVars, port, connected, sipInitialized, sipConnected,
                 sipRegistered, initCalled, closeCalled, notReady, h2e,
                 clients, sipVars, received>>

\* The part shared by initializeSip / connectSip / registerSip: arm the timer,
\* store the resolvers under sip_<kind>_<Date.now()>, send the request.
\* Calls are taken to happen at distinct milliseconds, so keys are distinct.
LifecycleCallUpTo(c, kind, type, payload, max) ==
  /\ Issued(c, kind) < max
  /\ LET key == Key(kind, Issued(c, kind) + 1) IN
     /\ timers' = [timers EXCEPT ![c] = @ \cup {key}]
     /\ pendingRequests' = [pendingRequests EXCEPT ![c] = MapSet(@, key)]
     /\ promises' = [promises EXCEPT ![c] = NewPromise(@, key)]
     /\ e2h' = sendMessage(e2h, c, Envelope(type, "", key, "", payload))
  /\ UNCHANGED <<hubBuild, bridgeVars, port, connected, requestCounter, sipInitialized,
                 sipConnected, sipRegistered, initCalled, closeCalled,
                 notReady, h2e, clients, sipVars, received>>

LifecycleCall(c, kind, type, payload) ==
  LifecycleCallUpTo(c, kind, type, payload, MaxLifecycle)

\* initializeSip(config): config is one of Configs
initializeSipUpTo(c, config, max) ==
  /\ c \in SipUsers
  /\ connected[c]
  /\ LifecycleCallUpTo(c, "sip_init", "REQUEST_SIP_INIT", config, max)

initializeSip(c, config) == initializeSipUpTo(c, config, MaxLifecycle)

\* connectSip()
connectSipUpTo(c, max) ==
  /\ c \in SipUsers
  /\ connected[c]
  /\ sipInitialized[c]
  /\ LifecycleCallUpTo(c, "sip_connect", "REQUEST_CONNECT", "", max)

connectSip(c) == connectSipUpTo(c, MaxLifecycle)

\* registerSip()
registerSipUpTo(c, max) ==
  /\ c \in SipUsers
  /\ connected[c]
  /\ sipConnected[c]
  /\ LifecycleCallUpTo(c, "sip_register", "REQUEST_REGISTER", "", max)

registerSip(c) == registerSipUpTo(c, MaxLifecycle)

\* makeCall: !(!this.sipInitialized || !this.sipConnected || !this.sipRegistered)
makeCallReady(c) == sipInitialized[c] /\ sipConnected[c] /\ sipRegistered[c]

\* makeCall(target): rejected with "SIP not ready" unless all three phase
\* flags are set, otherwise request("makeCall", {target, options})
makeCall(c) ==
  /\ c \in SipUsers
  /\ connected[c]
  /\ IF makeCallReady(c)
     THEN request(c, "makeCall", "target")
     ELSE /\ ~notReady[c]
          /\ notReady' = [notReady EXCEPT ![c] = TRUE]
          /\ UNCHANGED <<hubBuild, bridgeVars, port, connected, pendingRequests, timers,
                         requestCounter, sipInitialized, sipConnected,
                         sipRegistered, promises, initCalled, closeCalled,
                         chanVars, clients, sipVars, received>>

\* The reject() stored in a pendingRequests entry, called by close(): the
\* lifecycle wrappers clear their phase flag, the initialize wrapper clears
\* connected.
FlagAfterReject(flag, c, kind) ==
  IF KeysOfKind(pendingRequests[c], kind) # << >> THEN FALSE ELSE flag[c]

\* close()
close(c) ==
  /\ port[c]
  /\ closeCalled' = [closeCalled EXCEPT ![c] = TRUE]
  /\ e2h' = sendMessage(e2h, c, Envelope("CLIENT_DISCONNECTED", "", NoKey, "", ""))
  /\ timers' = [timers EXCEPT ![c] = clearTimeouts(@, pendingRequests[c])]
  /\ promises' = [promises EXCEPT ![c] =
        [k \in DOMAIN @ |->
           IF InSeq(k, pendingRequests[c])
           THEN Append(@[k], Call("close", FALSE, "Connection closed"))
           ELSE @[k]]]
  /\ sipInitialized' = [sipInitialized EXCEPT ![c] = FlagAfterReject(sipInitialized, c, "sip_init")]
  /\ sipConnected' = [sipConnected EXCEPT ![c] = FlagAfterReject(sipConnected, c, "sip_connect")]
  /\ sipRegistered' = [sipRegistered EXCEPT ![c] = FlagAfterReject(sipRegistered, c, "sip_register")]
  /\ pendingRequests' = [pendingRequests EXCEPT ![c] = << >>]
  /\ port' = [port EXCEPT ![c] = FALSE]
  /\ connected' = [connected EXCEPT ![c] = FALSE]
  /\ h2e' = [h2e EXCEPT ![c] = << >>]
  /\ UNCHANGED <<hubBuild, bridgeVars, requestCounter, initCalled, notReady, clients,
                 sipVars, received>>

\* The setTimeout callbacks of initialize(), request() and the lifecycle calls
TimerFire(c, key) ==
  /\ key \in timers[c]
  /\ timers' = [timers EXCEPT ![c] = @ \ {key}]
  /\ IF key.kind = "initialize"
     THEN \* reject(new Error("Connection to worker timed out"))
          /\ promises' = [promises EXCEPT ![c] =
                            Settle(@, key, Call("timer", FALSE, "timed out"))]
          /\ UNCHANGED pendingRequests
     ELSE IF key.kind = "req"
     THEN \* if (pending) { pending.reject(...); delete }
          IF InSeq(key, pendingRequests[c])
          THEN /\ promises' = [promises EXCEPT ![c] =
                                 Settle(@, key, Call("timer", FALSE, "timed out"))]
               /\ pendingRequests' = [pendingRequests EXCEPT ![c] = deleteOnTimeout(@, key)]
          ELSE UNCHANGED <<promises, pendingRequests>>
     ELSE \* lifecycle: delete(requestId); reject(...)
          /\ promises' = [promises EXCEPT ![c] =
                            Settle(@, key, Call("timer", FALSE, "timed out"))]
          /\ pendingRequests' = [pendingRequests EXCEPT ![c] = Remove(@, key)]
  /\ UNCHANGED <<hubBuild, bridgeVars, port, connected, requestCounter, sipInitialized,
                 sipConnected, sipRegistered, initCalled, closeCalled,
                 notReady, chanVars, clients, sipVars, received>>

----------------------------------------------------------------------------
\* SipClient.handleWorkerMessage (src/src/client/sip-client.ts)

\* The envelope the port's onmessage handler is called with next.
Inbox(c, type) == h2e[c] # << >> /\ Head(h2e[c]).type = type

\* What the Edge remembers of a lifecycle envelope it handled.
Seen(m) == [type |-> m.type, state |-> m.payload.state, success |-> m.payload.success]

\* The history grows at the Edges that drive the lifecycle.
Observe(seq, c, m) == IF c \in SipUsers THEN Append(seq, Seen(m)) ELSE seq

\* The first pending key with the given prefix, NoKey if there is none.
FirstKey(c, kind) ==
  IF KeysOfKind(pendingRequests[c], kind) = << >> THEN NoKey
  ELSE Head(KeysOfKind(pendingRequests[c], kind))

\* case "STATE_UPDATE"
handleStateUpdate(c) ==
  /\ Inbox(c, "STATE_UPDATE")
  /\ h2e' = [h2e EXCEPT ![c] = Tail(@)]
  /\ IF InSeq(InitKey, pendingRequests[c])
     THEN /\ timers' = [timers EXCEPT ![c] = @ \ {InitKey}]
          /\ connected' = [connected EXCEPT ![c] = TRUE]
          /\ promises' = [promises EXCEPT ![c] =
                            Settle(@, InitKey, Call("STATE_UPDATE", TRUE, "success"))]
          /\ pendingRequests' = [pendingRequests EXCEPT ![c] = Remove(@, InitKey)]
     ELSE UNCHANGED <<timers, connected, promises, pendingRequests>>
  /\ UNCHANGED <<hubBuild, bridgeVars, port, requestCounter, sipInitialized, sipConnected,
                 sipRegistered, initCalled, closeCalled, notReady, e2h,
                 clients, sipVars, received>>

\* case "RESPONSE": handleResponse(response)
handleResponse(c) ==
  /\ Inbox(c, "RESPONSE")
  /\ h2e' = [h2e EXCEPT ![c] = Tail(@)]
  /\ LET payload == Head(h2e[c]).payload
         key == payload.requestId
     IN IF key # NoKey /\ InSeq(key, pendingRequests[c])
        THEN /\ timers' = [timers EXCEPT ![c] = @ \ {key}]
             /\ promises' = [promises EXCEPT ![c] =
                  Settle(@, key,
                    IF Truthy(payload.success)
                    THEN Call("RESPONSE", TRUE, payload.data)
                    ELSE Call("RESPONSE", FALSE,
                              IF payload.error # "" THEN payload.error
                              ELSE "Unknown error"))]
             /\ pendingRequests' = [pendingRequests EXCEPT ![c] = deleteOnResponse(@, key)]
        ELSE UNCHANGED <<timers, promises, pendingRequests>>
  /\ UNCHANGED <<hubBuild, bridgeVars, port, connected, requestCounter, sipInitialized,
                 sipConnected, sipRegistered, initCalled, closeCalled,
                 notReady, e2h, clients, sipVars, received>>

\* case "SIP_INIT_RESULT"
handleSipInitResult(c) ==
  /\ Inbox(c, "SIP_INIT_RESULT")
  /\ h2e' = [h2e EXCEPT ![c] = Tail(@)]
  /\ received' = [received EXCEPT ![c] = Observe(@, c, Head(h2e[c]))]
  /\ LET payload == Head(h2e[c]).payload
         key == FirstKey(c, "sip_init")
     IN IF key # NoKey
        THEN /\ timers' = [timers EXCEPT ![c] = @ \ {key}]
             /\ sipInitialized' = [sipInitialized EXCEPT ![c] = Truthy(payload.success)]
             /\ promises' = [promises EXCEPT ![c] =
                  Settle(@, key,
                    IF Truthy(payload.success)
                    THEN Call("SIP_INIT_RESULT", TRUE, payload.success)
                    ELSE Call("SIP_INIT_RESULT", FALSE,
                              IF payload.error # "" THEN payload.error
                              ELSE "SIP initialization failed"))]
             /\ pendingRequests' = [pendingRequests EXCEPT ![c] = Remove(@, key)]
        ELSE UNCHANGED <<timers, sipInitialized, promises, pendingRequests>>
  /\ UNCHANGED <<hubBuild, bridgeVars, port, connected, requestCounter, sipConnected,
                 sipRegistered, initCalled, closeCalled, notReady, e2h,
                 clients, sipVars>>

\* case "SIP_CONNECTION_UPDATE": the loop settles the first sip_connect_ key
\* on a terminal payload and leaves every key alone otherwise.
handleSipConnectionUpdate(c) ==
  /\ Inbox(c, "SIP_CONNECTION_UPDATE")
  /\ h2e' = [h2e EXCEPT ![c] = Tail(@)]
  /\ received' = [received EXCEPT ![c] = Observe(@, c, Head(h2e[c]))]
  /\ LET payload == Head(h2e[c]).payload
         key == FirstKey(c, "sip_connect")
         ok == payload.state = "connected" \/ payload.success = "true"
         ko == payload.state = "failed" \/ payload.error # ""
     IN IF key # NoKey /\ (ok \/ ko)
        THEN /\ timers' = [timers EXCEPT ![c] = @ \ {key}]
             /\ sipConnected' = [sipConnected EXCEPT ![c] = ok]
             /\ promises' = [promises EXCEPT ![c] =
                  Settle(@, key,
                    IF ok
                    THEN \* resolve(result.success || result.state === "connected")
                         Call(payload.state, TRUE, "true")
                    ELSE Call(payload.state, FALSE,
                              IF payload.error # "" THEN payload.error
                              ELSE "SIP connection failed"))]
             /\ pendingRequests' = [pendingRequests EXCEPT ![c] = Remove(@, key)]
        ELSE UNCHANGED <<timers, sipConnected, promises, pendingRequests>>
  /\ UNCHANGED <<hubBuild, bridgeVars, port, connected, requestCounter, sipInitialized,
                 sipRegistered, initCalled, closeCalled, notReady, e2h,
                 clients, sipVars>>

\* case "SIP_REGISTRATION_UPDATE": the first sip_register_ key is deleted
\* whatever the payload; it is settled only on the two branches.
handleSipRegistrationUpdate(c) ==
  /\ Inbox(c, "SIP_REGISTRATION_UPDATE")
  /\ h2e' = [h2e EXCEPT ![c] = Tail(@)]
  /\ received' = [received EXCEPT ![c] = Observe(@, c, Head(h2e[c]))]
  /\ LET payload == Head(h2e[c]).payload
         key == FirstKey(c, "sip_register")
         ok == payload.state = "registered" \/ Truthy(payload.success)
         ko == payload.state = "failed" \/ payload.error # ""
     IN IF key # NoKey
        THEN /\ pendingRequests' = [pendingRequests EXCEPT ![c] = Remove(@, key)]
             /\ IF ok
                THEN \* this.sipRegistered = result.success; resolve(result.success)
                     /\ timers' = [timers EXCEPT ![c] = @ \ {key}]
                     /\ sipRegistered' = [sipRegistered EXCEPT ![c] = Truthy(payload.success)]
                     /\ promises' = [promises EXCEPT ![c] =
                          Settle(@, key, Call(payload.state, TRUE, payload.success))]
                ELSE IF ko
                THEN /\ timers' = [timers EXCEPT ![c] = @ \ {key}]
                     /\ sipRegistered' = [sipRegistered EXCEPT ![c] = FALSE]
                     /\ promises' = [promises EXCEPT ![c] =
                          Settle(@, key,
                            Call(payload.state, FALSE,
                                 IF payload.error # "" THEN payload.error
                                 ELSE "SIP registration failed"))]
                ELSE UNCHANGED <<timers, sipRegistered, promises>>
        ELSE UNCHANGED <<timers, sipRegistered, promises, pendingRequests>>
  /\ UNCHANGED <<hubBuild, bridgeVars, port, connected, requestCounter, sipInitialized,
                 sipConnected, initCalled, closeCalled, notReady, e2h,
                 clients, sipVars>>

\* default: emitEvent("message", message); no field of the client changes
handleOtherMessage(c) ==
  /\ h2e[c] # << >>
  /\ Head(h2e[c]).type \in {"CLIENT_CONNECTED", "CLIENT_DISCONNECTED",
                            "CALL_UPDATE", "CALL_ERROR", "REQUEST_RESULT"}
  /\ h2e' = [h2e EXCEPT ![c] = Tail(@)]
  /\ UNCHANGED <<hubBuild, bridgeVars, edgeVars, e2h, clients, sipVars, received>>

----------------------------------------------------------------------------
\* Envelopes the Hub sends

StateUpdate ==
  Envelope("STATE_UPDATE", "", NoKey, "",
    Payload(NoKey, "undefined", "none", "", "hasActiveCall:false,activeCall:null", 0))

\* notifyClientsAboutConnection / handleClientDisconnect broadcast
Membership(type, c, total) ==
  Envelope(type, "", NoKey, "", Payload(NoKey, "undefined", "", "", c, total))

SipUpdate(type, success, state, error) ==
  Envelope(type, "", NoKey, "", Payload(NoKey, success, state, error, "", 0))

\* payload {state} or {state, cause}: no success and no error field
SipBroadcast(type, state, cause) ==
  Envelope(type, "", NoKey, "", Payload(NoKey, "undefined", state, "", cause, 0))

CallEnvelope(type, state, error) ==
  Envelope(type, "", NoKey, "", Payload(NoKey, "undefined", state, error, "", 0))

\* n copies of one broadcast, as n calls of broadcastToAllClients post them
BroadcastTimes(q, reg, m, n) ==
  [d \in Clients |->
     IF hasClient(reg, d) /\ port[d] THEN q[d] \o [i \in 1..n |-> m] ELSE q[d]]

\* sendToClient to each client of a sequence, in order
SendToEach(q, reg, seq, m) ==
  [d \in Clients |->
     IF hasClient(reg, d) /\ port[d]
     THEN q[d] \o [i \in 1..Len(SelectSeq(seq, LAMBDA x : x = d)) |-> m]
     ELSE q[d]]

----------------------------------------------------------------------------
\* Worker entry point: port "message" listener and handleMessage
\* (src/src/worker/index.ts, src/unnamed/part_015)

\* The envelope the Hub's listener on Edge c's port is called with next.
Arrived(c, type) == e2h[c] # << >> /\ Head(e2h[c]).type = type

\* A handleClientInit that broadcasts before it replies
broadcastThenReply(q, reg, id) ==
  sendToClient(
    broadcastToAllClients(q, reg, Membership("CLIENT_CONNECTED", id, getClientCount(reg))),
    reg, id, StateUpdate)

\* handleClientInit after registerClient: sendToClient(clientId, STATE_UPDATE),
\* then notifyClientsAboutConnection(clientId)
replyThenBroadcast(q, reg, id) ==
  broadcastToAllClients(
    sendToClient(q, reg, id, StateUpdate), reg,
    Membership("CLIENT_CONNECTED", id, getClientCount(reg)))

\* messageHandler.handleClientInit(clientId, port)
handleClientInit(c) ==
  /\ Arrived(c, "CLIENT_CONNECTED")
  /\ e2h' = [e2h EXCEPT ![c] = Tail(@)]
  /\ LET id == Head(e2h[c]).clientId
         reg == registerClient(clients, id)
     IN /\ clients' = reg
        /\ h2e' = replyThenBroadcast(h2e, reg, id)
  /\ UNCHANGED <<hubBuild, bridgeVars, edgeVars, sipVars, received>>

\* messageHandler.handleClientDisconnect(clientId); an envelope of an
\* unregistered client is dropped by handleMessage
handleClientDisconnect(c) ==
  /\ Arrived(c, "CLIENT_DISCONNECTED")
  /\ e2h' = [e2h EXCEPT ![c] = Tail(@)]
  /\ LET id == Head(e2h[c]).clientId
         reg == unregisterClient(clients, id)
     IN IF hasClient(clients, id)
        THEN /\ clients' = reg
             /\ h2e' = broadcastToAllClients(h2e, reg,
                         Membership("CLIENT_DISCONNECTED", id, getClientCount(reg)))
        ELSE UNCHANGED <<clients, h2e>>
  /\ UNCHANGED <<hubBuild, bridgeVars, edgeVars, sipVars, received>>

\* part_015, handler of REQUEST, case "echo"
EchoData015(payload) == IF payload = "msg_hi" THEN "msg_hi" ELSE "msg_Echo response"

\* MessageHandler.handleRequest(clientId, request) of build "index"
handleRequest(q, reg, m) ==
  IF m.action = "echo"
  THEN sendResponse(q, reg, m.clientId, m.requestId, m.payload)
  ELSE sendErrorResponse(q, reg, m.clientId, m.requestId,
                         "Unknown action: " \o m.action)

\* The REQUEST handler build "part015" registers with addHandler; makeCall
\* is passed on to handleMakeCall and gets no RESPONSE here.
requestHandler015(q, reg, m) ==
  IF m.action = "echo"
  THEN sendResponse(q, reg, m.clientId, m.requestId, EchoData015(m.payload))
  ELSE IF m.action = "makeCall"
  THEN q
  ELSE sendErrorResponse(q, reg, m.clientId, m.requestId,
                         "Unknown request action: " \o m.action)

\* messageHandler.handleRequest(message) of build "part015": the handlers
\* registered for the envelope's type are called
dispatch015(q, reg, m) == requestHandler015(q, reg, m)

\* handleMakeCall(clientId, payload), up to its await: the payload of
\* SipClient.makeCall always has a target
handleMakeCallStart(q, reg, id) ==
  IF ~(initialized /\ userAgent)
  THEN sendToClient(q, reg, id, CallEnvelope("CALL_ERROR", "", "CALL_FAILED"))
  ELSE sendToClient(
         sendToClient(q, reg, id, CallEnvelope("CALL_UPDATE", "creating", "")),
         reg, id, CallEnvelope("CALL_UPDATE", "calling", ""))

\* case REQUEST of handleMessage; handleMakeCall gives the call a new
\* callId once sipManager.isInitialized()
HubRequest(c) ==
  /\ Arrived(c, "REQUEST")
  /\ e2h' = [e2h EXCEPT ![c] = Tail(@)]
  /\ LET m == Head(e2h[c]) IN
     IF ~hasClient(clients, m.clientId)
     THEN UNCHANGED <<h2e, invites, callUpdates>>
     ELSE IF hubBuild = "index"
     THEN /\ h2e' = handleRequest(h2e, clients, m)
          /\ UNCHANGED <<invites, callUpdates>>
     ELSE IF m.action = "makeCall"
     THEN /\ h2e' = handleMakeCallStart(dispatch015(h2e, clients, m), clients, m.clientId)
          /\ invites' = IF initialized /\ userAgent
                        THEN Append(invites, m.clientId) ELSE invites
          /\ callUpdates' = IF initialized /\ userAgent
                            THEN Append(callUpdates, <<"creating", "calling">>)
                            ELSE callUpdates
     ELSE /\ h2e' = dispatch015(h2e, clients, m)
          /\ UNCHANGED <<invites, callUpdates>>
  /\ UNCHANGED <<hubBuild, bridgeVars, edgeVars, clients, userAgent, initialized,
                 uaStarted, transportState, isConnected, wrappers, top,
                 startWaiters, onConnectedTarget, registererState,
                 registererStale, registerInFlight, reconnectVars, callSessions,
                 received>>

\* The calls the page of the SipUser can place, in the order of their callIds
CallIds == 1..MaxRequests

\* SessionState of the SIP stack
SessionStates == {"Initial", "Establishing", "Established", "Terminating", "Terminated"}

\* How the promise of SipManager.makeCall() settles once inviter.invite()
\* has: fulfilled with the inviter, or rejected by the rethrow of its catch
makeCallSettles(ok) == IF ok THEN "inviter" ELSE "rejected"

\* The callId of the oldest handleMakeCall that awaits makeCall(): callIds
\* are numbered in the order handleMakeCall made them
awaitedCallId == Len(callUpdates) - Len(invites) + 1

\* The continuation of handleMakeCall after await sipManager.makeCall():
\* on a fulfilled promise it adds its listener to session.stateChange (the
\* inviter has sent its INVITE and is Establishing) and sends
\* REQUEST_RESULT; its catch sends CALL_ERROR when the promise was rejected.
InviteSettled(ok) ==
  /\ invites # << >>
  /\ invites' = Tail(invites)
  /\ callSessions' = IF makeCallSettles(ok) # "rejected"
                     THEN Append(callSessions,
                            [client |-> Head(invites), callId |-> awaitedCallId,
                             state |-> "Establishing"])
                     ELSE callSessions
  /\ h2e' = sendToClient(h2e, clients, Head(invites),
              IF makeCallSettles(ok) # "rejected"
              THEN CallEnvelope("REQUEST_RESULT", "", "")
              ELSE CallEnvelope("CALL_ERROR", "", "CALL_FAILED"))
  /\ UNCHANGED <<hubBuild, bridgeVars, edgeVars, e2h, clients, userAgent, initialized,
                 uaStarted, transportState, isConnected, wrappers, top,
                 startWaiters, onConnectedTarget, registererState,
                 registererStale, registerInFlight, reconnectVars, callUpdates,
                 received>>

\* The states a session can move to from a SessionState
SessionMoves(state) ==
  CASE state = "Establishing" -> {"Established", "Terminating", "Terminated"}
    [] state = "Established" -> {"Terminating", "Terminated"}
    [] state = "Terminating" -> {"Terminated"}
    [] OTHER -> {}

\* The switch of the stateChange listener of handleMakeCall
callState(state) ==
  CASE state = "Establishing" -> "establishing"
    [] state = "Established" -> "connected"
    [] state = "Terminated" -> "ended"
    [] state = "Terminating" -> "terminating"
    [] OTHER -> "initial"

\* The session of call i changes its state: the listener handleMakeCall
\* added sends CALL_UPDATE with the mapped state to the calling Edge.
sessionStateChange(i, state) ==
  /\ i \in 1..Len(callSessions)
  /\ state \in SessionMoves(callSessions[i].state)
  /\ callSessions' = [callSessions EXCEPT ![i].state = state]
  /\ callUpdates' = [callUpdates EXCEPT ![callSessions[i].callId] =
                       Append(@, callState(state))]
  /\ h2e' = sendToClient(h2e, clients, callSessions[i].client,
                         CallEnvelope("CALL_UPDATE", callState(state), ""))
  /\ UNCHANGED <<hubBuild, bridgeVars, edgeVars, e2h, clients, userAgent, initialized,
                 uaStarted, transportState, isConnected, wrappers, top,
                 startWaiters, onConnectedTarget, registererState,
                 registererStale, registerInFlight, invites, reconnectVars,
                 received>>

----------------------------------------------------------------------------
\* REQUEST_SIP_INIT: handleSipInitialization and SipManager.initialize

\* A config that has its required fields and a uri that parses, with or
\* without autoReconnect
Complete(config) == config \in {"ok", "auto"}

InitResult(ok) ==
  IF ok THEN SipUpdate("SIP_INIT_RESULT", "true", "initialized", "")
  ELSE SipUpdate("SIP_INIT_RESULT", "false", "failed",
                 "Failed to initialize SIP UserAgent")

\* A wrapper whose connect() awaits start() of a UserAgent that is replaced
\* never gets that promise settled.
Orphan(w) == IF w.phase = "start" THEN [w EXCEPT !.phase = "stale"] ELSE w

\* Build "index": SipManager.initialize of part_004 makes a new UserAgent on
\* every call, stores the config and leaves the registerer and isConnected
\* as they are.
HubSipInitIndex(c) ==
  /\ hubBuild = "index"
  /\ Arrived(c, "REQUEST_SIP_INIT")
  /\ e2h' = [e2h EXCEPT ![c] = Tail(@)]
  /\ LET m == Head(e2h[c]) IN
     IF ~hasClient(clients, m.clientId)
     THEN UNCHANGED <<h2e, sipVars>>
     ELSE IF m.payload = "missing"
     THEN /\ h2e' = sendToClient(h2e, clients, m.clientId,
                      SipUpdate("SIP_INIT_RESULT", "false", "failed",
                                "Missing required SIP configuration"))
          /\ UNCHANGED sipVars
     ELSE IF m.payload = "badUri"
     THEN /\ h2e' = sendToClient(h2e, clients, m.clientId, InitResult(FALSE))
          /\ UNCHANGED sipVars
     ELSE /\ userAgent' = TRUE
          /\ initialized' = TRUE
          /\ uaStarted' = FALSE
          /\ transportState' = "Disconnected"
          /\ top' = 0
          /\ wrappers' = [i \in 1..Len(wrappers) |-> Orphan(wrappers[i])]
          /\ registererStale' = (registererState # "none")
          /\ autoReconnect' = (m.payload = "auto")
          /\ h2e' = sendToClient(h2e, clients, m.clientId, InitResult(TRUE))
          /\ UNCHANGED <<isConnected, startWaiters, onConnectedTarget,
                         registererState, registerInFlight, invites,
                         reconnectTimers, disconnectCalled, callVars>>
  /\ UNCHANGED <<hubBuild, bridgeVars, edgeVars, clients, received>>

ConnectFailed ==
  SipUpdate("SIP_CONNECTION_UPDATE", "false", "failed", "Failed to connect to SIP server")

\* callbacks.onDisconnected of both builds
Disconnected == SipBroadcast("SIP_CONNECTION_UPDATE", "disconnected", "")

\* Build "part015": SipManager.initialize of message-handler.ts stops an
\* existing UserAgent first; stopping ends its transport, its pending
\* start() and its registerer.
HubSipInit015(c) ==
  /\ hubBuild = "part015"
  /\ Arrived(c, "REQUEST_SIP_INIT")
  /\ e2h' = [e2h EXCEPT ![c] = Tail(@)]
  /\ LET m == Head(e2h[c])
         stopped == IF userAgent /\ transportState # "Disconnected"
                    THEN SendToEach(broadcastToAllClients(h2e, clients, Disconnected),
                                    clients, startWaiters, ConnectFailed)
                    ELSE h2e
     IN
     IF ~hasClient(clients, m.clientId)
     THEN UNCHANGED <<h2e, sipVars>>
     ELSE IF m.payload = "missing"
     THEN /\ h2e' = sendToClient(h2e, clients, m.clientId,
                      SipUpdate("SIP_INIT_RESULT", "false", "failed",
                                "Missing required SIP configuration"))
          /\ UNCHANGED sipVars
     ELSE /\ h2e' = sendToClient(stopped, clients, m.clientId,
                                 InitResult(Complete(m.payload)))
          /\ userAgent' = (userAgent \/ Complete(m.payload))
          /\ initialized' = Complete(m.payload)
          /\ uaStarted' = FALSE
          /\ transportState' = "Disconnected"
          /\ startWaiters' = << >>
          /\ registererState' = IF registererState = "none" THEN "none" ELSE "Terminated"
          /\ registerInFlight' = FALSE
          /\ UNCHANGED <<isConnected, wrappers, top, onConnectedTarget,
                         registererStale, invites, reconnectVars, callVars>>
  /\ UNCHANGED <<hubBuild, bridgeVars, edgeVars, clients, received>>

----------------------------------------------------------------------------
\* REQUEST_CONNECT: handleSipConnect and SipManager.connect

Wrapper(c, orig, phase) ==
  [client |-> c, orig |-> orig, result |-> "none", timer |-> TRUE, phase |-> phase]

\* The reply handleSipConnect of build "index" sends once connect() returned
ConnectReply(ok) ==
  IF ok THEN SipUpdate("SIP_CONNECTION_UPDATE", "true", "connecting", "")
  ELSE ConnectFailed

\* Build "index": connect() of part_004 installs an override of
\* transport.onConnect, arms connectionTimeout, awaits userAgent.start() and
\* then the override's promise.
HubSipConnectIndex(c) ==
  /\ hubBuild = "index"
  /\ Arrived(c, "REQUEST_CONNECT")
  /\ e2h' = [e2h EXCEPT ![c] = Tail(@)]
  /\ LET m == Head(e2h[c]) IN
     IF ~hasClient(clients, m.clientId)
     THEN UNCHANGED <<h2e, sipVars>>
     ELSE IF ~userAgent \/ ~initialized
     THEN /\ h2e' = sendToClient(h2e, clients, m.clientId, ConnectReply(FALSE))
          /\ UNCHANGED sipVars
     ELSE /\ wrappers' = Append(wrappers,
                           Wrapper(m.clientId, top,
                                   IF uaStarted THEN "promise" ELSE "start"))
          /\ top' = Len(wrappers) + 1
          /\ uaStarted' = TRUE
          /\ transportState' = IF uaStarted THEN transportState ELSE "Connecting"
          /\ UNCHANGED <<h2e, userAgent, initialized, isConnected, startWaiters,
                         onConnectedTarget, registererState, registererStale,
                         registerInFlight, invites, reconnectVars, callVars>>
  /\ UNCHANGED <<hubBuild, bridgeVars, edgeVars, clients, received>>

\* Build "part015": handleSipConnect sends "connecting" to the requester,
\* replaces callbacks.onConnected by a unicast to the requester and awaits
\* connect(); connect() of message-handler.ts awaits userAgent.start().
HubSipConnect015(c) ==
  /\ hubBuild = "part015"
  /\ Arrived(c, "REQUEST_CONNECT")
  /\ e2h' = [e2h EXCEPT ![c] = Tail(@)]
  /\ LET m == Head(e2h[c])
         q1 == sendToClient(h2e, clients, m.clientId,
                 SipBroadcast("SIP_CONNECTION_UPDATE", "connecting", ""))
     IN
     IF ~hasClient(clients, m.clientId)
     THEN UNCHANGED <<h2e, sipVars>>
     ELSE IF ~(initialized /\ userAgent)
     THEN /\ h2e' = sendToClient(h2e, clients, m.clientId,
                      SipUpdate("SIP_CONNECTION_UPDATE", "false", "failed",
                                "SIP UserAgent not initialized. Please initialize first."))
          /\ UNCHANGED sipVars
     ELSE /\ onConnectedTarget' = m.clientId
          /\ IF uaStarted
             THEN \* start() resolves at once, connect() returns true
                  /\ h2e' = q1
                  /\ UNCHANGED <<transportState, startWaiters>>
             ELSE \* the transport starts connecting: callbacks.onConnecting
                  /\ h2e' = broadcastToAllClients(q1, clients,
                              SipBroadcast("SIP_CONNECTION_UPDATE", "connecting", ""))
                  /\ transportState' = "Connecting"
                  /\ startWaiters' = Append(startWaiters, m.clientId)
          /\ uaStarted' = TRUE
          /\ UNCHANGED <<userAgent, initialized, isConnected, wrappers, top,
                         registererState, registererStale, registerInFlight,
                         invites, reconnectVars, callVars>>
  /\ UNCHANGED <<hubBuild, bridgeVars, edgeVars, clients, received>>

----------------------------------------------------------------------------
\* Transport events

Connected == SipBroadcast("SIP_CONNECTION_UPDATE", "connected", "")

\* part_004: the overrides that run when the handler at index j is called,
\* innermost first; 0 stands for the listener of _setupUserAgentListeners.
\* An override whose connectionResolved is set does nothing, and so does not
\* call the handler it replaced.
RECURSIVE Run(_)
Run(j) ==
  IF j = 0 THEN <<0>>
  ELSE IF wrappers[j].result # "none" THEN << >>
  ELSE Append(Run(wrappers[j].orig), j)

\* connect() of part_004 returns to handleSipConnect once start() has
\* resolved and the override's promise is settled.
Returns(w) == w.phase \in {"start", "promise"} /\ w.result # "none"

\* The replies of the handleSipConnect tasks that return, in creation order
ConnectReplies(q, reg, ws) ==
  [d \in Clients |->
     IF hasClient(reg, d) /\ port[d]
     THEN q[d] \o [i \in 1..Len(SelectSeq(ws, LAMBDA w : Returns(w) /\ w.client = d)) |->
                     ConnectReply(SelectSeq(ws, LAMBDA w : Returns(w) /\ w.client = d)[i].result = "true")]
     ELSE q[d]]

\* Build "index": the transport reaches Connected: transport.onConnect runs,
\* then start() resolves.
TransportConnectedIndex ==
  /\ hubBuild = "index"
  /\ transportState = "Connecting"
  /\ transportState' = "Connected"
  /\ LET ran == Run(top)
         ws == [i \in 1..Len(wrappers) |->
                  IF InSeq(i, ran) THEN [wrappers[i] EXCEPT !.result = "true"]
                  ELSE wrappers[i]]
     IN /\ isConnected' = (isConnected \/ ran # << >>)
        /\ h2e' = ConnectReplies(BroadcastTimes(h2e, clients, Connected, Len(ran)),
                                 clients, ws)
        /\ wrappers' = [i \in 1..Len(ws) |->
                          IF Returns(ws[i]) THEN [ws[i] EXCEPT !.phase = "done"]
                          ELSE IF ws[i].phase = "start" THEN [ws[i] EXCEPT !.phase = "promise"]
                          ELSE ws[i]]
  /\ UNCHANGED <<hubBuild, bridgeVars, edgeVars, e2h, clients, userAgent, initialized,
                 uaStarted, top, startWaiters, onConnectedTarget,
                 registererState, registererStale, registerInFlight, invites, reconnectVars, callVars,
                 received>>

\* Build "index": the attempt fails: transport.onDisconnect runs (and arms a
\* 5 s timeout when isConnected was still set and the config has
\* autoReconnect), start() rejects and connect() returns false from its catch.
TransportFailedIndex ==
  /\ hubBuild = "index"
  /\ transportState = "Connecting"
  /\ transportState' = "Disconnected"
  /\ isConnected' = FALSE
  /\ reconnectTimers' = IF isConnected /\ autoReconnect
                        THEN reconnectTimers + 1 ELSE reconnectTimers
  /\ h2e' = SendToEach(broadcastToAllClients(h2e, clients, Disconnected), clients,
              [i \in 1..Len(SelectSeq(wrappers, LAMBDA w : w.phase = "start")) |->
                 SelectSeq(wrappers, LAMBDA w : w.phase = "start")[i].client],
              ConnectFailed)
  /\ wrappers' = [i \in 1..Len(wrappers) |->
                    IF wrappers[i].phase = "start"
                    THEN [wrappers[i] EXCEPT !.phase = "done"] ELSE wrappers[i]]
  /\ UNCHANGED <<hubBuild, bridgeVars, edgeVars, e2h, clients, userAgent, initialized,
                 uaStarted, top, startWaiters, onConnectedTarget,
                 registererState, registererStale, registerInFlight, invites, autoReconnect,
                 disconnectCalled,
                 received, callVars>>

\* part_004: the oldest armed connectionTimeout fires; an unresolved override
\* is resolved with false and transport.onConnect is set back to the handler
\* that override replaced.
ConnectionTimeout ==
  /\ hubBuild = "index"
  /\ \E j \in 1..Len(wrappers) :
       /\ wrappers[j].timer
       /\ \A i \in 1..(j - 1) : ~wrappers[i].timer
       /\ LET w == wrappers[j]
              fires == w.result = "none"
              back == fires /\ w.phase = "promise"
          IN /\ wrappers' = [wrappers EXCEPT ![j] =
                  [w EXCEPT !.timer = FALSE,
                            !.result = IF fires THEN "false" ELSE @,
                            !.phase = IF back THEN "done" ELSE @]]
             /\ top' = IF fires THEN w.orig ELSE top
             /\ h2e' = IF back
                       THEN sendToClient(h2e, clients, w.client, ConnectFailed)
                       ELSE h2e
  /\ UNCHANGED <<hubBuild, bridgeVars, edgeVars, e2h, clients, userAgent, initialized,
                 uaStarted, transportState, isConnected, startWaiters,
                 onConnectedTarget, registererState, registererStale,
                 registerInFlight, invites, reconnectVars, callVars, received>>

\* Build "part015": the stateChange listener calls callbacks.onConnected,
\* which is the broadcast of line 147 until a handleSipConnect replaced it.
TransportConnected015 ==
  /\ hubBuild = "part015"
  /\ transportState = "Connecting"
  /\ transportState' = "Connected"
  /\ h2e' = IF onConnectedTarget = "all"
            THEN broadcastToAllClients(h2e, clients, Connected)
            ELSE sendToClient(h2e, clients, onConnectedTarget,
                   SipUpdate("SIP_CONNECTION_UPDATE", "true", "connected", ""))
  /\ startWaiters' = << >>
  /\ UNCHANGED <<hubBuild, bridgeVars, edgeVars, e2h, clients, userAgent, initialized,
                 uaStarted, isConnected, wrappers, top, onConnectedTarget,
                 registererState, registererStale, registerInFlight, invites, reconnectVars, callVars,
                 received>>

\* Build "part015": the attempt fails: callbacks.onDisconnected, start()
\* rejects, connect() returns false and handleSipConnect sends "failed".
TransportFailed015 ==
  /\ hubBuild = "part015"
  /\ transportState = "Connecting"
  /\ transportState' = "Disconnected"
  /\ h2e' = SendToEach(broadcastToAllClients(h2e, clients, Disconnected),
                       clients, startWaiters, ConnectFailed)
  /\ startWaiters' = << >>
  /\ UNCHANGED <<hubBuild, bridgeVars, edgeVars, e2h, clients, userAgent, initialized,
                 uaStarted, isConnected, wrappers, top, onConnectedTarget,
                 registererState, registererStale, registerInFlight, invites, reconnectVars, callVars,
                 received>>

\* A connected transport is lost: onDisconnect (part_004) or the stateChange
\* listener (message-handler.ts) calls callbacks.onDisconnected. onDisconnect
\* of part_004 arms a 5 s timeout when the manager was connected and the
\* config has autoReconnect.
TransportDropped ==
  /\ transportState = "Connected"
  /\ transportState' = "Disconnected"
  /\ isConnected' = IF hubBuild = "index" THEN FALSE ELSE isConnected
  /\ reconnectTimers' = IF hubBuild = "index" /\ isConnected /\ autoReconnect
                        THEN reconnectTimers + 1 ELSE reconnectTimers
  /\ h2e' = broadcastToAllClients(h2e, clients, Disconnected)
  /\ UNCHANGED <<hubBuild, bridgeVars, edgeVars, e2h, clients, userAgent, initialized,
                 uaStarted, wrappers, top, startWaiters, onConnectedTarget,
                 registererState, registererStale, registerInFlight, invites,
                 autoReconnect, disconnectCalled, received, callVars>>

\* SipManager.disconnect() of part_004 on a connected manager: unregister()
\* when registered, then userAgent.stop(), which ends the transport;
\* transport.onDisconnect runs with isConnected still set. The worker calls
\* disconnect() once.
disconnect ==
  /\ hubBuild = "index"
  /\ ~disconnectCalled
  /\ userAgent /\ isConnected
  /\ disconnectCalled' = TRUE
  /\ uaStarted' = FALSE
  /\ transportState' = "Disconnected"
  /\ isConnected' = FALSE
  /\ registererState' = IF registererState = "Registered" /\ ~registererStale
                        THEN "Unregistered" ELSE registererState
  /\ reconnectTimers' = IF autoReconnect THEN reconnectTimers + 1 ELSE reconnectTimers
  /\ LET q == IF registererState = "Registered" /\ ~registererStale
              THEN broadcastToAllClients(h2e, clients,
                     SipBroadcast("SIP_REGISTRATION_UPDATE", "unregistered", ""))
              ELSE h2e
     IN h2e' = broadcastToAllClients(q, clients, Disconnected)
  /\ UNCHANGED <<hubBuild, bridgeVars, edgeVars, e2h, clients, userAgent, initialized,
                 wrappers, top, startWaiters, onConnectedTarget, registererStale,
                 registerInFlight, invites, autoReconnect, received, callVars>>

\* The 5 s timeout of onDisconnect calls userAgent.start()
startsUserAgent == userAgent /\ ~isConnected

\* The 5 s timeout armed by transport.onDisconnect of part_004 fires:
\* userAgent.start() when there is a UserAgent and the manager is not
\* connected. start() on a started UserAgent does nothing; on a stopped one
\* it connects the transport. A rejection of start() is logged.
reconnectTimeout ==
  /\ reconnectTimers > 0
  /\ reconnectTimers' = reconnectTimers - 1
  /\ IF startsUserAgent /\ ~uaStarted
     THEN /\ uaStarted' = TRUE
          /\ transportState' = "Connecting"
     ELSE UNCHANGED <<uaStarted, transportState>>
  /\ UNCHANGED <<hubBuild, bridgeVars, edgeVars, chanVars, clients, userAgent,
                 initialized, isConnected, wrappers, top, startWaiters,
                 onConnectedTarget, registererState, registererStale,
                 registerInFlight, invites, autoReconnect, disconnectCalled,
                 received, callVars>>

----------------------------------------------------------------------------
\* REQUEST_REGISTER: handleSipRegister and SipManager.register

\* A reply that, like the broadcasts, carries the state alone.
RegisterReplyStateOnly(ok) ==
  SipBroadcast("SIP_REGISTRATION_UPDATE", IF ok THEN "registered" ELSE "failed", "")

\* The reply handleSipRegister sends once register() returned (both builds)
RegisterReply(ok) ==
  IF ok THEN SipUpdate("SIP_REGISTRATION_UPDATE", "true", "registering", "")
  ELSE SipUpdate("SIP_REGISTRATION_UPDATE", "false", "failed",
                 "Failed to register with SIP server")

\* registerer.register() rejects while a REGISTER awaits its final response
\* and on a terminated registerer; otherwise the REGISTER is sent and the
\* promise resolves before any response is handled.
RegisterRejects == registerInFlight \/ registererState = "Terminated"

\* Build "index": register() of part_004
HubSipRegisterIndex(c) ==
  /\ hubBuild = "index"
  /\ Arrived(c, "REQUEST_REGISTER")
  /\ e2h' = [e2h EXCEPT ![c] = Tail(@)]
  /\ LET m == Head(e2h[c]) IN
     IF ~hasClient(clients, m.clientId)
     THEN UNCHANGED <<h2e, sipVars>>
     ELSE IF ~userAgent \/ ~isConnected
     THEN /\ h2e' = sendToClient(h2e, clients, m.clientId, RegisterReply(FALSE))
          /\ UNCHANGED sipVars
     ELSE /\ registererState' = IF registererState = "none" THEN "Initial"
                                ELSE registererState
          /\ registerInFlight' = TRUE
          /\ h2e' = sendToClient(h2e, clients, m.clientId,
                                 RegisterReply(~RegisterRejects))
          /\ UNCHANGED <<userAgent, initialized, uaStarted, transportState,
                         isConnected, wrappers, top, startWaiters,
                         onConnectedTarget, registererStale, invites, reconnectVars, callVars>>
  /\ UNCHANGED <<hubBuild, bridgeVars, edgeVars, clients, received>>

\* Build "part015": register() of message-handler.ts; its catch calls
\* callbacks.onRegistrationFailed, the broadcast of {state:"failed", cause}
HubSipRegister015(c) ==
  /\ hubBuild = "part015"
  /\ Arrived(c, "REQUEST_REGISTER")
  /\ e2h' = [e2h EXCEPT ![c] = Tail(@)]
  /\ LET m == Head(e2h[c]) IN
     IF ~hasClient(clients, m.clientId)
     THEN UNCHANGED <<h2e, sipVars>>
     ELSE IF ~userAgent
     THEN /\ h2e' = sendToClient(h2e, clients, m.clientId, RegisterReply(FALSE))
          /\ UNCHANGED sipVars
     ELSE /\ registererState' = IF registererState = "none" THEN "Initial"
                                ELSE registererState
          /\ registerInFlight' = (registererState # "Terminated")
          /\ h2e' = sendToClient(
                      IF RegisterRejects
                      THEN broadcastToAllClients(h2e, clients,
                             SipBroadcast("SIP_REGISTRATION_UPDATE", "failed", "cause"))
                      ELSE h2e,
                      clients, m.clientId, RegisterReply(~RegisterRejects))
          /\ UNCHANGED <<userAgent, initialized, uaStarted, transportState,
                         isConnected, wrappers, top, startWaiters,
                         onConnectedTarget, registererStale, invites, reconnectVars, callVars>>
  /\ UNCHANGED <<hubBuild, bridgeVars, edgeVars, clients, received>>

\* The registrar accepts the REGISTER: the registerer becomes Registered and
\* its stateChange listener calls callbacks.onRegistered.
RegistrationAccepted ==
  /\ registerInFlight
  /\ ~registererStale
  /\ transportState = "Connected"
  /\ registerInFlight' = FALSE
  /\ registererState' = "Registered"
  /\ h2e' = IF registererState # "Registered"
            THEN broadcastToAllClients(h2e, clients,
                   SipBroadcast("SIP_REGISTRATION_UPDATE", "registered", ""))
            ELSE h2e
  /\ UNCHANGED <<hubBuild, bridgeVars, edgeVars, e2h, clients, userAgent, initialized,
                 uaStarted, transportState, isConnected, wrappers, top,
                 startWaiters, onConnectedTarget, registererStale, invites, reconnectVars, callVars,
                 received>>

\* The REGISTER is rejected or gets no answer: the registerer becomes
\* Unregistered and its stateChange listener calls callbacks.onUnregistered.
RegistrationRejected ==
  /\ registerInFlight
  /\ ~registererStale
  /\ registerInFlight' = FALSE
  /\ registererState' = "Unregistered"
  /\ h2e' = IF registererState # "Unregistered"
            THEN broadcastToAllClients(h2e, clients,
                   SipBroadcast("SIP_REGISTRATION_UPDATE", "unregistered", ""))
            ELSE h2e
  /\ UNCHANGED <<hubBuild, bridgeVars, edgeVars, e2h, clients, userAgent, initialized,
                 uaStarted, transportState, isConnected, wrappers, top,
                 startWaiters, onConnectedTarget, registererStale, invites, reconnectVars, callVars,
                 received>>

----------------------------------------------------------------------------
\* Remote-SDP bridge: envelopes (src/src/common/types.ts)

\* A field an object does not have
Undefined == "undefined"

\* JavaScript truthiness of a string field
Defined(x) == x # Undefined /\ x # ""

\* SdpRequest: {operation, requestId, data, options}
SdpRequestWith(operation, requestId, data) ==
  [operation |-> operation, requestId |-> requestId, data |-> data]

\* An SdpRequest that carries no data
SdpRequest(operation, requestId) == SdpRequestWith(operation, requestId, Undefined)

NoRequest == SdpRequest(Undefined, NoKey)

\* SdpResponse: {requestId, result, error}
SdpResponse(requestId, result, error) ==
  [requestId |-> requestId, result |-> result, error |-> error]

NoResponse == SdpResponse(NoKey, Undefined, Undefined)

\* RTCSessionDescriptionInit: {type, sdp}
Description(type, sdp) == [type |-> type, sdp |-> sdp]

\* localDescription / remoteDescription while undefined
NoDescription == Description("", "")

\* The data of a request that carries a description
DescriptionData(d) == d.type \o ":" \o d.sdp

\* The getDescription() call of a handler: phase "none" before the call,
\* then the await it stands at ("create", "setLocal", "gathering",
\* "complete"), "settled" once its promise is settled; key is the request
\* awaited, first the request whose result its const sdp holds.
Task(phase, key, isOffer) ==
  [phase |-> phase, key |-> key, isOffer |-> isOffer, first |-> NoKey]

NoTask == Task("none", NoKey, FALSE)

\* The payload of a bridge envelope, every field undefined. The envelopes
\* set the fields they carry: the Hub's SDP_REQUEST sets sessionId and
\* request, a reply in the documented shape sets sessionId and response.
NoSdpPayload ==
  [sessionId |-> Undefined, request |-> NoRequest, response |-> NoResponse,
   requestId |-> NoKey, operation |-> Undefined, result |-> Undefined,
   error |-> Undefined, candidate |-> Undefined, state |-> Undefined]

\* The envelope types handleSdpMessage passes to the factory
BridgeTypes == {"SDP_RESPONSE", "ICE_CANDIDATE", "CONNECTION_STATE_CHANGE"}

----------------------------------------------------------------------------
\* WorkerSessionDescriptionHandler (src/src/common/types.ts)

\* A handleClientMessage that settles and leaves the entry in the map.
keepOnClientMessage(seq, key) == seq

\* handleClientMessage: this.pendingRequests.delete(requestId)
deleteOnClientMessage(seq, key) == Remove(seq, key)

\* _sendSdpRequest: this.clientId, else the first id of getAllClientIds(),
\* "" when no client is registered
SelectClient(h) ==
  IF sdhClientId[h] # "" THEN sdhClientId[h]
  ELSE IF clients # << >> THEN clients[1]
  ELSE ""

\* uuidv4(): an id no other request has; prom holds the handler's requests
NextRequestId(h, prom) == Key(h, Cardinality(DOMAIN prom) + 1)

\* _sendSdpRequest(request) on a handler whose map, timers and promises are
\* pend, tim and prom: the handler's fields and the Hub's outbound queues
\* after the call.
sendSdpRequestWith(h, operation, data, pend, tim, prom) ==
  LET cid == SelectClient(h)
      key == NextRequestId(h, prom)
      m == Envelope("SDP_REQUEST", cid, NoKey, "",
             [NoSdpPayload EXCEPT !.sessionId = h,
                                  !.request = SdpRequestWith(operation, key, data)])
  IN IF cid = ""
     THEN \* return reject(new Error("No clients connected"))
          [clientId |-> "", pending |-> pend, timers |-> tim, h2e |-> h2e,
           promises |-> Settle(NewPromise(prom, key), key,
                               Call("noclient", FALSE, "No clients connected"))]
     ELSE IF ~hasClient(clients, cid)
     THEN \* !sent: clearTimeout(timer); delete(requestId); reject(...)
          [clientId |-> cid, pending |-> pend, timers |-> tim, h2e |-> h2e,
           promises |-> Settle(NewPromise(prom, key), key,
                               Call("send", FALSE, "Failed to send request to client"))]
     ELSE [clientId |-> cid, pending |-> Append(pend, key),
           timers |-> tim \cup {key}, h2e |-> PostToEdge(h2e, cid, m),
           promises |-> NewPromise(prom, key)]

\* _sendSdpRequest({operation}): a request without data
sendSdpRequest(h, operation, pend, tim, prom) ==
  sendSdpRequestWith(h, operation, Undefined, pend, tim, prom)

\* The operations the SIP stack has asked of a handler
Operations(h) ==
  Cardinality(DOMAIN sdhPromises[h]) - (IF sdhClosed[h] THEN 1 ELSE 0)

\* A getDescription() that asks CREATE_OFFER whatever the handler holds
alwaysOffer(isOffer) == "createOffer"

\* A handler that never counts as closed
neverClosed(h) == FALSE

\* if (this.closed) of getDescription() and setDescription()
isClosed(h) == sdhClosed[h]

\* The awaits of getDescription() that stand on a request
AwaitsRequest(task) == task.phase \in {"create", "setLocal", "complete"}

\* The operation getDescription() asks first: isOffer = !this.remoteDescription
firstOperation(isOffer) == IF isOffer THEN "createOffer" ELSE "createAnswer"

\* A body that is the type of the description
typeOf(local) == local.type

\* The body getDescription() resolves with: this.localDescription.sdp
bodyOf(local) == local.sdp

\* getDescription() from the await of request key on, once that request is
\* settled with call and the handler's map, timers and promises are pend,
\* tim and prom: the handler's fields and the Hub's outbound queues when
\* the call next awaits or its promise is settled.
descContinue(h, key, call, pend, tim, prom) ==
  LET task == descTask[h]
      same == [clientId |-> sdhClientId[h], pending |-> pend, timers |-> tim,
               promises |-> prom, h2e |-> h2e, task |-> task,
               promise |-> descPromise[h], local |-> localDescription[h]]
      \* catch (error) { reject(error) }
      rejectWith(error) ==
        [same EXCEPT !.task = Task("settled", NoKey, task.isOffer),
                     !.promise = Append(@, Call("getDescription", FALSE, error))]
      resolveWith(local) ==
        [same EXCEPT !.task = Task("settled", NoKey, task.isOffer),
                     !.local = local,
                     !.promise = Append(@, Call("getDescription", TRUE, bodyOf(local)))]
  IN IF ~AwaitsRequest(task) \/ task.key # key THEN same
     ELSE IF ~call.ok THEN rejectWith(call.value)
     ELSE IF task.phase = "create"
     THEN IF ~Defined(call.value)
          THEN \* sdp.sdp of an undefined result
               rejectWith("TypeError")
          ELSE LET local == Description(IF task.isOffer THEN "offer" ELSE "answer",
                                        call.value)
                   k == NextRequestId(h, prom)
                   r == sendSdpRequestWith(h, "setLocalDescription",
                                           DescriptionData(local), pend, tim, prom)
               IN [clientId |-> r.clientId, pending |-> r.pending,
                   timers |-> r.timers, promises |-> r.promises, h2e |-> r.h2e,
                   local |-> local,
                   task |-> IF r.promises[k] # << >>
                            THEN Task("settled", NoKey, task.isOffer)
                            ELSE [Task("setLocal", k, task.isOffer)
                                    EXCEPT !.first = task.key],
                   promise |-> IF r.promises[k] # << >>
                               THEN Append(descPromise[h],
                                      Call("getDescription", FALSE, r.promises[k][1].value))
                               ELSE descPromise[h]]
     ELSE IF task.phase = "setLocal"
     THEN IF trickleCandidates[h]
          THEN IF localDescription[h] = NoDescription
               THEN rejectWith("TypeError")
               ELSE resolveWith(localDescription[h])
          ELSE \* await this._waitForIceGathering()
               [same EXCEPT !.task = Task("gathering", NoKey, task.isOffer)]
     ELSE \* this.localDescription = {type, sdp: completeSdp.sdp}
          IF ~Defined(call.value)
          THEN rejectWith("TypeError")
          ELSE resolveWith(Description(IF task.isOffer THEN "offer" ELSE "answer",
                                       call.value))

\* The handler's fields and the outbound queues become those of record d
setHandler(h, d) ==
  /\ sdhClientId' = [sdhClientId EXCEPT ![h] = d.clientId]
  /\ sdhPending' = [sdhPending EXCEPT ![h] = d.pending]
  /\ sdhTimers' = [sdhTimers EXCEPT ![h] = d.timers]
  /\ sdhPromises' = [sdhPromises EXCEPT ![h] = d.promises]
  /\ h2e' = d.h2e
  /\ descTask' = [descTask EXCEPT ![h] = d.task]
  /\ descPromise' = [descPromise EXCEPT ![h] = d.promise]
  /\ localDescription' = [localDescription EXCEPT ![h] = d.local]

\* sendDtmf(tones, options): false on a closed handler, else one request
sendDtmf(h) ==
  /\ activeSessions[h] # "none"
  /\ ~sdhClosed[h]
  /\ Operations(h) < MaxSdpRequests
  /\ LET r == sendSdpRequest(h, "sendDtmf", sdhPending[h], sdhTimers[h], sdhPromises[h])
     IN /\ sdhClientId' = [sdhClientId EXCEPT ![h] = r.clientId]
        /\ sdhPending' = [sdhPending EXCEPT ![h] = r.pending]
        /\ sdhTimers' = [sdhTimers EXCEPT ![h] = r.timers]
        /\ sdhPromises' = [sdhPromises EXCEPT ![h] = r.promises]
        /\ h2e' = r.h2e
  /\ UNCHANGED <<iceVars, hubBuild, edgeVars, e2h, clients, sipVars, received,
                 activeSessions, sdhClosed, iceCandidates, connectionState,
                 descVars>>

\* close(): rejects and clears the pending requests, then sends CLOSE
sdhClose(h) ==
  /\ activeSessions[h] # "none"
  /\ ~sdhClosed[h]
  /\ sdhClosed' = [sdhClosed EXCEPT ![h] = TRUE]
  /\ LET rejected == [k \in DOMAIN sdhPromises[h] |->
                        IF InSeq(k, sdhPending[h])
                        THEN Append(sdhPromises[h][k],
                               Call("close", FALSE, "SessionDescriptionHandler closed"))
                        ELSE sdhPromises[h][k]]
         r == sendSdpRequest(h, "close", << >>,
                             sdhTimers[h] \ {k \in sdhTimers[h] : InSeq(k, sdhPending[h])}, rejected)
     IN /\ sdhClientId' = [sdhClientId EXCEPT ![h] = r.clientId]
        /\ sdhPending' = [sdhPending EXCEPT ![h] = r.pending]
        /\ sdhTimers' = [sdhTimers EXCEPT ![h] = r.timers]
        /\ sdhPromises' = [sdhPromises EXCEPT ![h] = r.promises]
        /\ h2e' = r.h2e
  /\ iceCandidates' = [iceCandidates EXCEPT ![h] = << >>]
  /\ localDescription' = [localDescription EXCEPT ![h] = NoDescription]
  /\ remoteDescription' = [remoteDescription EXCEPT ![h] = NoDescription]
  /\ IF AwaitsRequest(descTask[h]) /\ InSeq(descTask[h].key, sdhPending[h])
     THEN \* the request getDescription() awaits is rejected
          /\ descTask' = [descTask EXCEPT ![h] = Task("settled", NoKey, @.isOffer)]
          /\ descPromise' = [descPromise EXCEPT ![h] =
                Append(@, Call("getDescription", FALSE,
                               "SessionDescriptionHandler closed"))]
     ELSE UNCHANGED <<descTask, descPromise>>
  /\ UNCHANGED <<iceVars, hubBuild, edgeVars, e2h, clients, sipVars, received,
                 activeSessions, connectionState, trickleCandidates,
                 closedRejections>>

\* The setTimeout callback of _sendSdpRequest
sdhTimerFire(h, key) ==
  /\ key \in sdhTimers[h]
  /\ sdhTimers' = [sdhTimers EXCEPT ![h] = @ \ {key}]
  /\ IF InSeq(key, sdhPending[h])
     THEN /\ sdhPending' = [sdhPending EXCEPT ![h] = Remove(@, key)]
          /\ sdhPromises' = [sdhPromises EXCEPT ![h] =
                               Settle(@, key, Call("timer", FALSE, "Request timeout"))]
     ELSE UNCHANGED <<sdhPending, sdhPromises>>
  /\ IF InSeq(key, sdhPending[h]) /\ AwaitsRequest(descTask[h])
        /\ descTask[h].key = key
     THEN \* the request getDescription() awaits is rejected
          /\ descTask' = [descTask EXCEPT ![h] = Task("settled", NoKey, @.isOffer)]
          /\ descPromise' = [descPromise EXCEPT ![h] =
                Append(@, Call("getDescription", FALSE, "Request timeout"))]
     ELSE UNCHANGED <<descTask, descPromise>>
  /\ UNCHANGED <<iceVars, hubBuild, edgeVars, chanVars, clients, sipVars, received,
                 activeSessions, sdhClientId, sdhClosed, iceCandidates,
                 connectionState, trickleCandidates, localDescription,
                 remoteDescription, closedRejections>>

\* getDescription(options): rejected on a closed handler, else CREATE_OFFER
\* or CREATE_ANSWER is asked of the Edge and the call awaits the reply. The
\* SIP stack asks one description of a handler.
getDescription(h) ==
  /\ activeSessions[h] # "none"
  /\ descTask[h].phase = "none"
  /\ IF isClosed(h)
     THEN /\ closedRejections' = [closedRejections EXCEPT ![h] = @ \cup {"getDescription"}]
          /\ UNCHANGED <<sdhClientId, sdhPending, sdhTimers, sdhPromises, h2e,
                         descTask, descPromise>>
     ELSE LET isOffer == remoteDescription[h] = NoDescription
              k == NextRequestId(h, sdhPromises[h])
              r == sendSdpRequest(h, firstOperation(isOffer), sdhPending[h],
                                  sdhTimers[h], sdhPromises[h])
          IN /\ sdhClientId' = [sdhClientId EXCEPT ![h] = r.clientId]
             /\ sdhPending' = [sdhPending EXCEPT ![h] = r.pending]
             /\ sdhTimers' = [sdhTimers EXCEPT ![h] = r.timers]
             /\ sdhPromises' = [sdhPromises EXCEPT ![h] = r.promises]
             /\ h2e' = r.h2e
             /\ IF r.promises[k] # << >>
                THEN /\ descTask' = [descTask EXCEPT ![h] = Task("settled", NoKey, isOffer)]
                     /\ descPromise' = [descPromise EXCEPT ![h] =
                           Append(@, Call("getDescription", FALSE,
                                          r.promises[k][1].value))]
                ELSE /\ descTask' = [descTask EXCEPT ![h] = Task("create", k, isOffer)]
                     /\ UNCHANGED descPromise
             /\ UNCHANGED closedRejections
  /\ UNCHANGED <<iceVars, hubBuild, edgeVars, e2h, clients, sipVars, received,
                 activeSessions, sdhClosed, iceCandidates, connectionState,
                 trickleCandidates, localDescription, remoteDescription>>

\* _waitForIceGathering() is entered by the getDescription() call of a
\* handler in this step: with a state other than "complete" the timeout is
\* armed and checkState() schedules its first poll
waitForIceGathering ==
  gatheringPolls' =
    [h \in Sessions |->
       \/ gatheringPolls[h]
       \/ /\ descTask'[h].phase = "gathering"
          /\ descTask[h].phase # "gathering"
          /\ iceGatheringState[h] # "complete"]

\* checkState() of _waitForIceGathering(), the callback of its 50 ms
\* setTimeout, once the promise is resolved: with the state "complete" it
\* returns, else it schedules itself again
checkState(h) ==
  /\ gatheringPolls[h]
  /\ descTask[h].phase # "gathering"
  /\ gatheringPolls' = [gatheringPolls EXCEPT ![h] = iceGatheringState[h] # "complete"]
  /\ UNCHANGED <<iceGatheringState, pcGathering, hubBuild, edgeVars, chanVars,
                 clients, sipVars, received, activeSessions, sdhClientId,
                 sdhClosed, sdhPending, sdhTimers, sdhPromises, iceCandidates,
                 connectionState, descVars>>

\* _waitForIceGathering() resolves, by the state "complete" or by its
\* timeout, and getDescription() asks GET_COMPLETE_SDP. checkState() that
\* finds the state "complete" clears the timeout and schedules no poll; the
\* timeout leaves the scheduled poll as it is.
iceGatheringWaited(h) ==
  /\ descTask[h].phase = "gathering"
  /\ gatheringPolls' = [gatheringPolls EXCEPT ![h] =
                          @ /\ iceGatheringState[h] # "complete"]
  /\ LET k == NextRequestId(h, sdhPromises[h])
         r == sendSdpRequest(h, "getCompleteSdp", sdhPending[h], sdhTimers[h],
                             sdhPromises[h])
     IN /\ sdhClientId' = [sdhClientId EXCEPT ![h] = r.clientId]
        /\ sdhPending' = [sdhPending EXCEPT ![h] = r.pending]
        /\ sdhTimers' = [sdhTimers EXCEPT ![h] = r.timers]
        /\ sdhPromises' = [sdhPromises EXCEPT ![h] = r.promises]
        /\ h2e' = r.h2e
        /\ IF r.promises[k] # << >>
           THEN /\ descTask' = [descTask EXCEPT ![h] = Task("settled", NoKey, @.isOffer)]
                /\ descPromise' = [descPromise EXCEPT ![h] =
                      Append(@, Call("getDescription", FALSE, r.promises[k][1].value))]
           ELSE /\ descTask' = [descTask EXCEPT ![h] = Task("complete", k, @.isOffer)]
                /\ UNCHANGED descPromise
  /\ UNCHANGED <<iceGatheringState, pcGathering, hubBuild, edgeVars, e2h, clients,
                 sipVars, received,
                 activeSessions, sdhClosed, iceCandidates, connectionState,
                 trickleCandidates, localDescription, remoteDescription,
                 closedRejections>>

\* An offer
toOffer(remote) == "offer"

\* setDescription: type = this.remoteDescription ? "answer" : "offer"
remoteType(remote) == IF remote = NoDescription THEN "offer" ELSE "answer"

\* setDescription(sdp, options): rejected on a closed handler, else the
\* remote description is stored and SET_REMOTE_DESCRIPTION is asked of the
\* Edge. The SIP stack sets a description once, an offer and then its
\* answer.
setDescription(h, sdp) ==
  /\ activeSessions[h] # "none"
  /\ IF isClosed(h)
     THEN /\ closedRejections' = [closedRejections EXCEPT ![h] = @ \cup {"setDescription"}]
          /\ UNCHANGED <<sdhClientId, sdhPending, sdhTimers, sdhPromises, h2e,
                         remoteDescription, iceCandidates, iceGatheringState>>
     ELSE /\ remoteDescription[h].type # "answer"
          /\ remoteDescription[h].sdp # sdp
          /\ LET remote == Description(remoteType(remoteDescription[h]), sdp)
                 r == sendSdpRequestWith(h, "setRemoteDescription",
                        DescriptionData(remote), sdhPending[h], sdhTimers[h],
                        sdhPromises[h])
             IN /\ remoteDescription' = [remoteDescription EXCEPT ![h] = remote]
                /\ sdhClientId' = [sdhClientId EXCEPT ![h] = r.clientId]
                /\ sdhPending' = [sdhPending EXCEPT ![h] = r.pending]
                /\ sdhTimers' = [sdhTimers EXCEPT ![h] = r.timers]
                /\ sdhPromises' = [sdhPromises EXCEPT ![h] = r.promises]
                /\ h2e' = r.h2e
          /\ IF remoteType(remoteDescription[h]) = "offer"
             THEN /\ iceCandidates' = [iceCandidates EXCEPT ![h] = << >>]
                  /\ iceGatheringState' = [iceGatheringState EXCEPT ![h] = "new"]
             ELSE UNCHANGED <<iceCandidates, iceGatheringState>>
          /\ UNCHANGED closedRejections
  /\ UNCHANGED <<pcGathering, gatheringPolls, hubBuild, edgeVars, e2h, clients,
                 sipVars, received,
                 activeSessions, sdhClosed, connectionState, trickleCandidates,
                 localDescription, descTask, descPromise>>

----------------------------------------------------------------------------
\* WorkerSessionDescriptionHandlerFactory (src/src/common/types.ts) and
\* SipManager.handleSdpMessage (src/src/worker/message-handler.ts)

\* create(session, options): the SIP stack sets up a session; cid is the
\* clientId of the merged options, "" when they carry none, trickle their
\* trickleCandidates !== false. The handler is stored under
\* handler.getClientId() || "default".
createWith(h, cid, trickle) ==
  /\ hubBuild = "part015"
  /\ activeSessions[h] = "none"
  /\ sdhClientId' = [sdhClientId EXCEPT ![h] = cid]
  /\ activeSessions' = [activeSessions EXCEPT ![h] =
                          IF cid # "" THEN cid ELSE "default"]
  /\ trickleCandidates' = [trickleCandidates EXCEPT ![h] = trickle]
  /\ UNCHANGED <<iceVars, hubBuild, edgeVars, chanVars, clients, sipVars, received,
                 sdhClosed, sdhPending, sdhTimers, sdhPromises, iceCandidates,
                 connectionState, localDescription, remoteDescription,
                 descTask, descPromise, closedRejections>>

\* setClientId(clientId): the handler's active client becomes clientId
setClientId(h, cid) ==
  /\ activeSessions[h] # "none"
  /\ sdhClientId[h] # cid
  /\ sdhClientId' = [sdhClientId EXCEPT ![h] = cid]
  /\ UNCHANGED <<iceVars, hubBuild, edgeVars, chanVars, clients, sipVars, received,
                 activeSessions, sdhClosed, sdhPending, sdhTimers, sdhPromises,
                 iceCandidates, connectionState, descVars>>

\* create(session, options) with the options the SIP managers pass, which
\* carry no trickleCandidates: the factory's default, true, stays
create(h, cid) == createWith(h, cid, TRUE)

\* A lookup of the handler by its sessionId alone
foundUnderAnyClient(id, sessionId) ==
  sessionId \in Sessions /\ activeSessions[sessionId] # "none"

\* this.activeSessions.get(clientId)?.get(sessionId) finds a handler
Found(id, sessionId) == sessionId \in Sessions /\ activeSessions[sessionId] = id

\* A null candidate
Null == "null"

\* if (candidate): neither null nor undefined
IsCandidate(candidate) == candidate # Null /\ candidate # Undefined

\* handler.handleIceCandidate(candidate) in trickle mode: the candidate is
\* pushed, and pushed again by the default peerConnectionDelegate
\* onicecandidate, which no session delegate of the SIP stack replaces.
pushCandidate(seq, candidate) == Append(Append(seq, candidate), candidate)

\* case SDP_RESPONSE / ICE_CANDIDATE / CONNECTION_STATE_CHANGE of
\* handleMessage: sipManager.handleSdpMessage(message), the factory's
\* handleSdpResponse / handleIceCandidate / handleConnectionStateChange and
\* the handler method they forward to.
handleSdpMessage(c) ==
  /\ hubBuild = "part015"
  /\ e2h[c] # << >>
  /\ Head(e2h[c]).type \in BridgeTypes
  /\ e2h' = [e2h EXCEPT ![c] = Tail(@)]
  /\ LET m == Head(e2h[c])
         id == m.clientId
         h == m.payload.sessionId
         response == m.payload.response
         key == response.requestId
         call == IF Defined(response.error)
                 THEN Call("SDP_RESPONSE", FALSE, response.error)
                 ELSE Call("SDP_RESPONSE", TRUE, response.result)
     IN IF ~hasClient(clients, id) \/ ~Defined(h) \/ ~Found(id, h)
        THEN \* unknown client, missing sessionId, or no handler found
             UNCHANGED <<h2e, sdhClientId, sdhPending, sdhTimers, sdhPromises,
                         iceCandidates, connectionState, iceGatheringState,
                         localDescription,
                         descTask, descPromise>>
        ELSE IF m.type = "SDP_RESPONSE"
        THEN /\ IF response # NoResponse /\ InSeq(key, sdhPending[h])
                THEN \* the request is settled, and getDescription() runs on
                     \* from its await when the request was its own
                     setHandler(h, descContinue(h, key, call,
                                  deleteOnClientMessage(sdhPending[h], key),
                                  sdhTimers[h] \ {key},
                                  Settle(sdhPromises[h], key, call)))
                ELSE UNCHANGED <<h2e, sdhClientId, sdhPending, sdhTimers,
                                 sdhPromises, localDescription, descTask,
                                 descPromise>>
             /\ UNCHANGED <<iceCandidates, connectionState, iceGatheringState>>
        ELSE IF m.type = "ICE_CANDIDATE" /\ ~IsCandidate(m.payload.candidate)
        THEN \* a null candidate ends the gathering; the default delegate
             \* does nothing with it
             /\ iceGatheringState' = [iceGatheringState EXCEPT ![h] = "complete"]
             /\ UNCHANGED <<h2e, sdhClientId, sdhPending, sdhTimers, sdhPromises,
                            iceCandidates, connectionState, localDescription,
                            descTask, descPromise>>
        ELSE IF m.type = "ICE_CANDIDATE"
        THEN IF trickleCandidates[h]
             THEN /\ iceCandidates' = [iceCandidates EXCEPT ![h] =
                                         pushCandidate(@, m.payload.candidate)]
                  /\ UNCHANGED iceGatheringState
                  /\ UNCHANGED <<h2e, sdhClientId, sdhPending, sdhTimers,
                                 sdhPromises, connectionState, localDescription,
                                 descTask, descPromise>>
             ELSE \* non-trickle: the candidate is pushed once and sent to
                  \* the Edge as ADD_ICE_CANDIDATE
                  LET r == sendSdpRequestWith(h, "addIceCandidate",
                             m.payload.candidate, sdhPending[h], sdhTimers[h],
                             sdhPromises[h])
                  IN /\ iceCandidates' = [iceCandidates EXCEPT ![h] =
                                            Append(@, m.payload.candidate)]
                     /\ sdhClientId' = [sdhClientId EXCEPT ![h] = r.clientId]
                     /\ sdhPending' = [sdhPending EXCEPT ![h] = r.pending]
                     /\ sdhTimers' = [sdhTimers EXCEPT ![h] = r.timers]
                     /\ sdhPromises' = [sdhPromises EXCEPT ![h] = r.promises]
                     /\ h2e' = r.h2e
                     /\ UNCHANGED <<connectionState, iceGatheringState,
                                    localDescription,
                                    descTask, descPromise>>
        ELSE /\ connectionState' = [connectionState EXCEPT ![h] = m.payload.state]
             /\ UNCHANGED iceGatheringState
             /\ UNCHANGED <<h2e, sdhClientId, sdhPending, sdhTimers, sdhPromises,
                            iceCandidates, localDescription, descTask,
                            descPromise>>
  /\ waitForIceGathering
  /\ UNCHANGED <<pcGathering, hubBuild, edgeVars, clients, sipVars, received,
                 activeSessions, sdhClosed, trickleCandidates,
                 remoteDescription, closedRejections>>

----------------------------------------------------------------------------
\* The Edge's side of the bridge

\* PeerConnectionManager.handleSdpRequest(payload): operation is read from
\* the payload itself, and the peer connection carries every operation
\* out. The result, or the message of the Error thrown; GET_COMPLETE_SDP
\* and SEND_DTMF have no case.
peerHandleSdpRequest(payload) ==
  IF payload.operation \in {"createOffer", "createAnswer", "getStats"}
  THEN [ok |-> TRUE, value |-> "sdp"]
  ELSE IF payload.operation \in {"setLocalDescription", "setRemoteDescription",
                                 "addIceCandidate", "close"}
  THEN [ok |-> TRUE, value |-> "success"]
  ELSE [ok |-> FALSE, value |-> "Unknown SDP operation: " \o payload.operation]

\* The switch of handleSdpRequest(payload) of src/src/demo/index.ts on a
\* page whose peer connection carries every operation out
demoHandleSdpRequest(operation) ==
  IF operation \in {"createOffer", "createAnswer", "getCompleteSdp"}
  THEN [ok |-> TRUE, value |-> "sdp"]
  ELSE IF operation \in {"setLocalDescription", "setRemoteDescription", "close"}
  THEN [ok |-> TRUE, value |-> "success"]
  ELSE [ok |-> FALSE, value |-> "Unknown SDP operation: " \o operation]

\* SipClient.handleSdpRequest(data.payload) of src/unnamed/part_018: the reply
\* carries payload.requestId and the result or the error at its top level.
handleSdpRequest018(c) ==
  /\ Inbox(c, "SDP_REQUEST")
  /\ h2e' = [h2e EXCEPT ![c] = Tail(@)]
  /\ LET payload == Head(h2e[c]).payload
         r == peerHandleSdpRequest(payload)
     IN e2h' = sendMessage(e2h, c,
                 Envelope("SDP_RESPONSE", "", NoKey, "",
                   IF r.ok
                   THEN [NoSdpPayload EXCEPT !.requestId = payload.requestId,
                                             !.result = r.value]
                   ELSE [NoSdpPayload EXCEPT !.requestId = payload.requestId,
                                             !.error = r.value]))
  /\ UNCHANGED <<hubBuild, bridgeVars, edgeVars, clients, sipVars, received>>

\* handleSdpRequest(payload) of src/src/demo/index.ts, the page on top of
\* src/src/client/sip-client.ts: the request is read from payload.request;
\* the reply carries requestId and the result or the error at its top level.
handleSdpRequestDemo(c) ==
  /\ Inbox(c, "SDP_REQUEST")
  /\ h2e' = [h2e EXCEPT ![c] = Tail(@)]
  /\ LET req == Head(h2e[c]).payload.request IN
     IF req = NoRequest
     THEN UNCHANGED e2h
     ELSE e2h' = sendMessage(e2h, c,
                   Envelope("SDP_RESPONSE", "", NoKey, "",
                     IF demoHandleSdpRequest(req.operation).ok
                     THEN [NoSdpPayload EXCEPT !.requestId = req.requestId,
                             !.result = demoHandleSdpRequest(req.operation).value]
                     ELSE [NoSdpPayload EXCEPT !.requestId = req.requestId,
                             !.error = demoHandleSdpRequest(req.operation).value]))
  /\ UNCHANGED <<hubBuild, bridgeVars, edgeVars, clients, sipVars, received>>

\* PeerConnectionManager.handleIceCandidate(event): the candidate is sent
\* without a sessionId
peerIceCandidate(c) ==
  /\ connected[c] /\ port[c]
  /\ pcGathering[c] # "complete"
  /\ Len(e2h[c]) < MaxInFlight
  /\ e2h' = sendMessage(e2h, c,
              Envelope("ICE_CANDIDATE", "", NoKey, "",
                       [NoSdpPayload EXCEPT !.candidate = "candidate"]))
  /\ UNCHANGED <<hubBuild, bridgeVars, edgeVars, h2e, clients, sipVars, received>>

\* PeerConnectionManager.handleIceConnectionStateChange(): the state is sent
\* without a sessionId
peerIceConnectionStateChange(c) ==
  /\ connected[c] /\ port[c]
  /\ Len(e2h[c]) < MaxInFlight
  /\ e2h' = sendMessage(e2h, c,
              Envelope("CONNECTION_STATE_CHANGE", "", NoKey, "",
                       [NoSdpPayload EXCEPT !.state = "connected"]))
  /\ UNCHANGED <<hubBuild, bridgeVars, edgeVars, h2e, clients, sipVars, received>>

\* Candidates of a session on their way to the Hub
CandidatesInFlight(h) ==
  Cardinality(UNION {{<<c, i>> : i \in {j \in 1..Len(e2h[c]) :
                                          /\ e2h[c][j].type = "ICE_CANDIDATE"
                                          /\ e2h[c][j].payload.sessionId = h}} :
                     c \in Clients})

\* The bridge payloads a page passes to SipClient.sendMessage: envelopes in
\* the documented shape, for a session and a request of the bridge.
SdpEnvelopes(h) ==
  {Envelope("SDP_RESPONSE", "", NoKey, "",
     [NoSdpPayload EXCEPT !.sessionId = h, !.response = SdpResponse(k, v[1], v[2])]) :
       k \in DOMAIN sdhPromises[h],
       v \in {<<"sdp", Undefined>>, <<Undefined, "MediaFailure">>}}
  \cup {Envelope("ICE_CANDIDATE", "", NoKey, "",
          [NoSdpPayload EXCEPT !.sessionId = h, !.candidate = "candidate"]) :
            x \in {y \in {1} : 2 * CandidatesInFlight(h) + Len(iceCandidates[h]) + 2
                                 <= MaxCandidates}}
  \cup {Envelope("CONNECTION_STATE_CHANGE", "", NoKey, "",
          [NoSdpPayload EXCEPT !.sessionId = h, !.state = "connected"])}

\* sendMessage(message) called by the page with a bridge envelope
sendSdpEnvelope(c, m) ==
  /\ connected[c] /\ port[c]
  /\ Len(e2h[c]) < MaxInFlight
  /\ e2h' = sendMessage(e2h, c, m)
  /\ UNCHANGED <<hubBuild, bridgeVars, edgeVars, h2e, clients, sipVars, received>>

----------------------------------------------------------------------------
\* The system

Init ==
  /\ hubBuild \in HubBuilds
  /\ port = [c \in Clients |-> FALSE]
  /\ connected = [c \in Clients |-> FALSE]
  /\ pendingRequests = [c \in Clients |-> << >>]
  /\ timers = [c \in Clients |-> {}]
  /\ requestCounter = [c \in Clients |-> 0]
  /\ sipInitialized = [c \in Clients |-> FALSE]
  /\ sipConnected = [c \in Clients |-> FALSE]
  /\ sipRegistered = [c \in Clients |-> FALSE]
  /\ promises = [c \in Clients |-> << >>]
  /\ initCalled = [c \in Clients |-> FALSE]
  /\ closeCalled = [c \in Clients |-> FALSE]
  /\ notReady = [c \in Clients |-> FALSE]
  /\ e2h = [c \in Clients |-> << >>]
  /\ h2e = [c \in Clients |-> << >>]
  /\ clients = << >>
  /\ userAgent = FALSE
  /\ initialized = FALSE
  /\ uaStarted = FALSE
  /\ transportState = "Disconnected"
  /\ isConnected = FALSE
  /\ wrappers = << >>
  /\ top = 0
  /\ startWaiters = << >>
  /\ onConnectedTarget = "all"
  /\ registererState = "none"
  /\ registererStale = FALSE
  /\ registerInFlight = FALSE
  /\ invites = << >>
  /\ autoReconnect = FALSE
  /\ reconnectTimers = 0
  /\ disconnectCalled = FALSE
  /\ callSessions = << >>
  /\ callUpdates = << >>
  /\ received = [c \in Clients |-> << >>]
  /\ activeSessions = [h \in Sessions |-> "none"]
  /\ sdhClientId = [h \in Sessions |-> ""]
  /\ sdhClosed = [h \in Sessions |-> FALSE]
  /\ sdhPending = [h \in Sessions |-> << >>]
  /\ sdhTimers = [h \in Sessions |-> {}]
  /\ sdhPromises = [h \in Sessions |-> << >>]
  /\ iceCandidates = [h \in Sessions |-> << >>]
  /\ connectionState = [h \in Sessions |-> "new"]
  /\ trickleCandidates = [h \in Sessions |-> TRUE]
  /\ localDescription = [h \in Sessions |-> NoDescription]
  /\ remoteDescription = [h \in Sessions |-> NoDescription]
  /\ descTask = [h \in Sessions |-> NoTask]
  /\ descPromise = [h \in Sessions |-> << >>]
  /\ closedRejections = [h \in Sessions |-> {}]
  /\ iceGatheringState = [h \in Sessions |-> "new"]
  /\ pcGathering = [c \in Clients |-> "new"]
  /\ gatheringPolls = [h \in Sessions |-> FALSE]

\* Pages open and close their SipClient; the Hub admits and removes them.
Admission ==
  \/ \E c \in Clients : initialize(c)
  \/ \E c \in Clients : close(c)
  \/ \E c \in Clients : \E key \in timers[c] : TimerFire(c, key)
  \/ \E c \in Clients : handleStateUpdate(c)
  \/ \E c \in Clients : handleOtherMessage(c)
  \/ \E c \in Clients : handleClientInit(c)
  \/ \E c \in Clients : handleClientDisconnect(c)

\* The Hub's side of request(), and the Edge's side of its reply
Rpc ==
  \/ \E c \in Clients : HubRequest(c)
  \/ \E c \in Clients : handleResponse(c)

\* The SIP lifecycle: the calls of the page, the Hub's handlers and the
\* events of the SIP stack
Lifecycle ==
  \/ \E c \in Clients, config \in Configs : initializeSip(c, config)
  \/ \E c \in Clients : connectSip(c)
  \/ \E c \in Clients : registerSip(c)
  \/ \E c \in Clients : makeCall(c)
  \/ \E c \in Clients : handleSipInitResult(c)
  \/ \E c \in Clients : handleSipConnectionUpdate(c)
  \/ \E c \in Clients : handleSipRegistrationUpdate(c)
  \/ \E c \in Clients : HubSipInitIndex(c)
  \/ \E c \in Clients : HubSipInit015(c)
  \/ \E c \in Clients : HubSipConnectIndex(c)
  \/ \E c \in Clients : HubSipConnect015(c)
  \/ \E c \in Clients : HubSipRegisterIndex(c)
  \/ \E c \in Clients : HubSipRegister015(c)
  \/ \E ok \in BOOLEAN : InviteSettled(ok)
  \/ TransportConnectedIndex
  \/ TransportFailedIndex
  \/ ConnectionTimeout
  \/ TransportConnected015
  \/ TransportFailed015
  \/ TransportDropped
  \/ RegistrationAccepted
  \/ RegistrationRejected

\* The admission and request/response plane: every page opens its client,
\* calls request() and closes.
Next ==
  \/ Admission
  \/ \E c \in Clients, action \in Actions, payload \in Payloads : request(c, action, payload)
  \/ Rpc

Spec == Init /\ [][Next]_vars

\* The SIP lifecycle plane: the page of a SipUser also drives the lifecycle
\* and places calls with makeCall().
SipNext ==
  \/ Admission
  \/ Rpc
  \/ Lifecycle

SipSpec == Init /\ [][SipNext]_vars

\* The bridge: the SIP stack's calls on the factory and its handlers, the
\* request timers, the Hub's routing and the Edges' replies and events
Bridge ==
  \/ \E h \in Sessions, cid \in SipUsers \cup {""} : create(h, cid)
  \/ \E h \in Sessions : sendDtmf(h)
  \/ \E h \in Sessions : sdhClose(h)
  \/ \E h \in Sessions : \E key \in sdhTimers[h] : sdhTimerFire(h, key)
  \/ \E c \in Clients : handleSdpMessage(c)
  \/ \E c \in Clients : handleSdpRequest018(c)
  \/ \E c \in Clients : handleSdpRequestDemo(c)
  \/ \E c \in SipUsers : peerIceCandidate(c)
  \/ \E c \in SipUsers : peerIceConnectionStateChange(c)
  \/ \E c \in SipUsers, h \in Sessions : \E m \in SdpEnvelopes(h) : sendSdpEnvelope(c, m)

\* The worker entry point that wires the bridge
BridgeInit == Init /\ hubBuild = "part015"

BridgeNext == Admission \/ Bridge

BridgeSpec == BridgeInit /\ [][BridgeNext]_vars

----------------------------------------------------------------------------
\* Properties of the admission and request/response plane (Spec)

\* An Edge is live from the moment its initialize() completed until its
\* close() is called.
Live(c) ==
  /\ InitKey \in DOMAIN promises[c]
  /\ promises[c][InitKey] # << >>
  /\ promises[c][InitKey][1].ok
  /\ ~closeCalled[c]

\* Every envelope posted so far has been handled.
Quiet == \A c \in Clients : e2h[c] = << >> /\ h2e[c] = << >>

\* C1: once the Hub has processed the CLIENT_CONNECTED and
\* CLIENT_DISCONNECTED envelopes sent so far, getClientCount() equals the
\* number of live Edges.
C1_CountEqualsLiveEdges ==
  Quiet => getClientCount(clients) = Cardinality({c \in Clients : Live(c)})

\* The promises request() has returned on Edge c.
Requests(c) == {k \in DOMAIN promises[c] : k.kind = "req"}

\* What a RESPONSE of the Hub can settle a request() promise with.
ResponseData == Payloads \cup {EchoData015(p) : p \in Payloads}
ResponseErrors == {"Unknown action: " \o a : a \in Actions}
                    \cup {"Unknown request action: " \o a : a \in Actions}

\* The promise of key k on Edge c was settled at most once, by one of the
\* given settlers; while it is unsettled its entry is pending and its timer
\* armed, and once it is settled its entry is gone. A RESPONSE resolves with
\* the data it carries or rejects with the error it carries; timer and
\* close() reject.
SettledOnceBy(c, k, settlers) ==
  LET calls == promises[c][k] IN
  /\ Len(calls) <= 1
  /\ calls = << >> => InSeq(k, pendingRequests[c]) /\ k \in timers[c]
  /\ calls # << >> =>
       /\ ~InSeq(k, pendingRequests[c])
       /\ calls[1].by \in settlers
       /\ calls[1].by = "RESPONSE" =>
            IF calls[1].ok THEN calls[1].value \in ResponseData
            ELSE calls[1].value \in ResponseErrors
       /\ calls[1].by # "RESPONSE" => ~calls[1].ok

\* C2 as stated: the promise of every request() call on a connected client
\* settles exactly once, by the matching RESPONSE or by its timer.
C2_SettledByResponseOrTimer ==
  \A c \in Clients : \A k \in Requests(c) :
    SettledOnceBy(c, k, {"RESPONSE", "timer"})

\* C2, amended: the promise of every request() call on a connected client
\* settles exactly once, by the matching RESPONSE, by its timer or by
\* close(); until then its timer stays armed.
C2_SettledOnce ==
  \A c \in Clients : \A k \in Requests(c) :
    SettledOnceBy(c, k, {"RESPONSE", "timer", "close"})

\* Each of the three settlers has settled a request() promise.
C2_Witness ==
  /\ \E c \in Clients : \E k \in Requests(c) :
       promises[c][k] # << >> /\ promises[c][k][1].by = "RESPONSE" /\ promises[c][k][1].ok
  /\ \E c \in Clients : \E k \in Requests(c) :
       promises[c][k] # << >> /\ promises[c][k][1].by \in {"timer", "close"}

\* The request of key k on Edge c ended by its timer.
TimedOut(c, k) == promises[c][k] # << >> /\ promises[c][k][1].by = "timer"

\* Edge c handles a RESPONSE whose request ended by its timer.
LateResponse(c) ==
  /\ Inbox(c, "RESPONSE")
  /\ port'[c]
  /\ h2e'[c] = Tail(h2e[c])
  /\ Head(h2e[c]).payload.requestId \in Requests(c)
  /\ TimedOut(c, Head(h2e[c]).payload.requestId)

\* C3: once the timer of a request has fired its pending entry is gone, and
\* a RESPONSE handled later for that requestId settles no promise and leaves
\* pendingRequests, the timers and every flag of the client unchanged.
C3_LateResponseDropped ==
  [][\A c \in Clients :
       /\ \A k \in Requests(c) : TimedOut(c, k) => ~InSeq(k, pendingRequests[c])
       /\ LateResponse(c) =>
            UNCHANGED <<promises, pendingRequests, timers, connected,
                        sipInitialized, sipConnected, sipRegistered,
                        requestCounter, port>>]_vars

\* A request timed out, the Hub has answered it and the Edge, still open,
\* has handled that answer.
C3_Witness ==
  \E c \in Clients : \E k \in Requests(c) :
    /\ TimedOut(c, k)
    /\ port[c]
    /\ hasClient(clients, c)
    /\ e2h[c] = << >>
    /\ h2e[c] = << >>

----------------------------------------------------------------------------
\* Properties of the SIP lifecycle plane (SipSpec)

LifecycleKinds == {"sip_init", "sip_connect", "sip_register"}

\* The promises initializeSip / connectSip / registerSip returned on Edge c.
Lifecycles(c) == {k \in DOMAIN promises[c] : k.kind \in LifecycleKinds}

\* Edge c handles an envelope of the given type that reports the given state.
Handles(c, type, state) ==
  /\ Inbox(c, type)
  /\ Head(h2e[c]).payload.state = state
  /\ port'[c]
  /\ h2e'[c] = Tail(h2e[c])

\* No promise of the given kind on Edge c gets a settle call in this step.
NotSettled(c, kind) ==
  \A k \in DOMAIN promises[c] : k.kind = kind => promises'[c][k] = promises[c][k]

\* C7: a SIP_CONNECTION_UPDATE that reports "connecting" settles no
\* connectSip() promise and a SIP_REGISTRATION_UPDATE that reports
\* "registering" settles no registerSip() promise.
C7_IntermediateDoesNotSettle ==
  [][\A c \in Clients :
       /\ Handles(c, "SIP_CONNECTION_UPDATE", "connecting") => NotSettled(c, "sip_connect")
       /\ Handles(c, "SIP_REGISTRATION_UPDATE", "registering") => NotSettled(c, "sip_register")]_vars

\* The init, connect, register happy path of Edge c, so far: the page made
\* at most one call of each lifecycle function and did not close, no
\* lifecycle timer fired, and the Hub reported no failure, disconnection or
\* unregistration.
HappyPath(c) ==
  /\ ~closeCalled[c]
  /\ \A kind \in LifecycleKinds : Issued(c, kind) <= 1
  /\ \A k \in Lifecycles(c) :
       \A i \in 1..Len(promises[c][k]) : promises[c][k][i].by # "timer"
  /\ \A i \in 1..Len(received[c]) :
       received[c][i].state \notin {"failed", "disconnected", "unregistered"}

\* In seq every envelope of type tb and state b comes after one of type ta
\* and state a.
Precedes(seq, ta, a, tb, b) ==
  \A i \in 1..Len(seq) :
    (seq[i].type = tb /\ seq[i].state = b) =>
      \E j \in 1..(i - 1) : seq[j].type = ta /\ seq[j].state = a

\* C8: in the happy path the requesting Edge handles SIP_INIT_RESULT
\* "initialized" first, "connecting" before "connected", and "registering"
\* before "registered".
C8_HappyPathOrder ==
  \A c \in SipUsers :
    HappyPath(c) =>
      /\ Precedes(received[c], "SIP_INIT_RESULT", "initialized",
                  "SIP_CONNECTION_UPDATE", "connecting")
      /\ Precedes(received[c], "SIP_CONNECTION_UPDATE", "connecting",
                  "SIP_CONNECTION_UPDATE", "connected")
      /\ Precedes(received[c], "SIP_CONNECTION_UPDATE", "connected",
                  "SIP_REGISTRATION_UPDATE", "registering")
      /\ Precedes(received[c], "SIP_REGISTRATION_UPDATE", "registering",
                  "SIP_REGISTRATION_UPDATE", "registered")

\* The promise of the given kind on Edge c is settled.
Settled(c, kind) ==
  \E k \in Lifecycles(c) : k.kind = kind /\ promises[c][k] # << >>

\* Edge c went through the whole happy path.
HappyDone(c) ==
  HappyPath(c) /\ \A kind \in LifecycleKinds : Settled(c, kind)

\* C9: in the happy path every lifecycle promise that is settled was
\* resolved, once, with the value true, the phase flag of a resolved promise
\* is set, and once all three are resolved makeCall() passes its check of
\* the phase flags, so it is not rejected with "SIP not ready".
C9_HappyPathResolvesTrue ==
  \A c \in SipUsers :
    HappyPath(c) =>
      /\ \A k \in Lifecycles(c) :
           promises[c][k] # << >> =>
             /\ Len(promises[c][k]) = 1
             /\ promises[c][k][1].ok
             /\ promises[c][k][1].value = "true"
      /\ Settled(c, "sip_init") => sipInitialized[c]
      /\ Settled(c, "sip_connect") => sipConnected[c]
      /\ Settled(c, "sip_register") => sipRegistered[c]
      /\ HappyDone(c) => makeCallReady(c)

\* The happy path is complete and makeCall() has sent its request.
C9_Witness ==
  \E c \in SipUsers :
    /\ HappyDone(c)
    /\ \E k \in Requests(c) : TRUE
    /\ ~notReady[c]

CloseCall == Call("close", FALSE, "Connection closed")

\* C10: close() calls the reject of every entry of pendingRequests with
\* "Connection closed" and leaves the map empty, and a promise close() has
\* rejected gets no further settle call, neither from a timer nor from an
\* envelope.
C10_CloseRejectsPending ==
  [][\A c \in Clients :
       /\ (port[c] /\ ~port'[c]) =>
            /\ pendingRequests'[c] = << >>
            /\ \A i \in 1..Len(pendingRequests[c]) :
                 promises'[c][pendingRequests[c][i]] =
                   Append(promises[c][pendingRequests[c][i]], CloseCall)
       /\ \A k \in DOMAIN promises[c] :
            InSeq(CloseCall, promises[c][k]) => promises'[c][k] = promises[c][k]]_vars

\* close() has rejected a pending lifecycle request on one Edge and a
\* pending initialize on another.
C10_Witness ==
  /\ \E c \in Clients : \E k \in Lifecycles(c) : promises[c][k] = <<CloseCall>>
  /\ \E c \in Clients : closeCalled[c] /\ promises[c][InitKey] = <<CloseCall>>

----------------------------------------------------------------------------
\* Properties of BridgeSpec

\* The settle calls on the promise of request k of handler h
Outcomes(h, k) == sdhPromises[h][k]

\* _sendSdpRequest handed the request to a client: it was not rejected on
\* the spot for want of a client or of a successful send.
Dispatched(h, k) ==
  Outcomes(h, k) = << >> \/ Outcomes(h, k)[1].by \notin {"noclient", "send"}

\* C4: every request _sendSdpRequest dispatched has at most one outcome, and
\* that outcome is the matching SDP_RESPONSE, its timer or close(); while it
\* has none it has its entry in pendingRequests and its timer is armed, so
\* one of the three will come; once it has one the entry and the timer are
\* gone, so no later reply, timer or close() reaches it. A request that was
\* never dispatched never has an entry.
C4_ExactlyOneOutcome ==
  \A h \in Sessions : \A k \in DOMAIN sdhPromises[h] :
    /\ Len(Outcomes(h, k)) <= 1
    /\ InSeq(k, sdhPending[h]) <=> Outcomes(h, k) = << >>
    /\ k \in sdhTimers[h] <=> InSeq(k, sdhPending[h])
    /\ Outcomes(h, k) # << >> /\ Dispatched(h, k)
         => Outcomes(h, k)[1].by \in {"SDP_RESPONSE", "timer", "close"}

\* C4 witness: one handler has had a request rejected by close(), one
\* settled by its SDP_RESPONSE after a second reply came for it, and the
\* requests have no entry left.
C4_Witness ==
  \E h \in Sessions : \E k1, k2 \in DOMAIN sdhPromises[h] :
    /\ Outcomes(h, k1) # << >> /\ Outcomes(h, k1)[1].by = "close"
    /\ Outcomes(h, k2) # << >> /\ Outcomes(h, k2)[1].by = "SDP_RESPONSE"
    /\ sdhPending[h] = << >>
    /\ \E c \in Clients : /\ e2h[c] # << >>
                          /\ Head(e2h[c]).type = "SDP_RESPONSE"
                          /\ Head(e2h[c]).payload.response.requestId = k2

\* The Edge takes the SDP_REQUEST at the head of its inbox.
TakesSdpRequest(c) ==
  /\ Inbox(c, "SDP_REQUEST")
  /\ port'[c]
  /\ h2e'[c] = Tail(h2e[c])

\* An SDP_RESPONSE {sessionId, response: {requestId, result | error}} that
\* carries the ids of the request m
InShape(reply, m) ==
  /\ reply.type = "SDP_RESPONSE"
  /\ reply.payload.sessionId = m.payload.sessionId
  /\ reply.payload.response.requestId = m.payload.request.requestId
  /\ Defined(reply.payload.response.result) \/ Defined(reply.payload.response.error)

\* C5: an Edge that takes an SDP_REQUEST posts exactly one envelope, an
\* SDP_RESPONSE whose payload is {sessionId, response: {requestId, result |
\* error}} with the sessionId and the requestId of the request.
C5_AnswersInShape ==
  [][\A c \in Clients :
       TakesSdpRequest(c) =>
         /\ Len(e2h'[c]) = Len(e2h[c]) + 1
         /\ InShape(e2h'[c][Len(e2h'[c])], Head(h2e[c]))]_vars

\* The Hub takes from Edge c a bridge envelope for session h, and h is a
\* created handler that sends its requests to the sender.
TakesFromOwner(c, h) ==
  /\ e2h[c] # << >>
  /\ e2h'[c] = Tail(e2h[c])
  /\ Head(e2h[c]).type \in BridgeTypes
  /\ hasClient(clients, Head(e2h[c]).clientId)
  /\ Head(e2h[c]).payload.sessionId = h
  /\ activeSessions[h] # "none"
  /\ sdhClientId[h] = Head(e2h[c]).clientId

\* The handler h has handled the envelope m in this step.
HandledBy(h, m) ==
  IF m.type = "SDP_RESPONSE"
  THEN InSeq(m.payload.response.requestId, sdhPending[h])
         => sdhPromises'[h][m.payload.response.requestId]
              # sdhPromises[h][m.payload.response.requestId]
  ELSE IF m.type = "ICE_CANDIDATE"
  THEN iceCandidates'[h] # iceCandidates[h]
  ELSE connectionState'[h] = m.payload.state

\* C6: a bridge envelope that names a session and comes from the client the
\* session's handler sends its requests to is handled by that handler,
\* whether the handler got its clientId at create() or at its first request.
C6_RoutedToOwner ==
  [][\A c \in Clients : \A h \in Sessions :
       TakesFromOwner(c, h) => HandledBy(h, Head(e2h[c]))]_vars

----------------------------------------------------------------------------
\* Properties of admission and removal (Spec)

\* Edge c's close() runs in this step.
Closes(c) == port[c] /\ ~port'[c]

\* The Hub takes the envelope of the given type at the head of Edge c's
\* outbox in this step.
HubTakes(c, type) == Arrived(c, type) /\ e2h'[c] = Tail(e2h[c])

\* The envelopes the Hub posts to Edge d in this step.
Posted(d) == SubSeq(h2e'[d], Len(h2e[d]) + 1, Len(h2e'[d]))

\* C11: close() on an Edge the Hub has admitted posts CLIENT_DISCONNECTED to
\* the Hub, whether or not the Edge's initialize() has completed, and the
\* Hub, on taking it, removes the Edge and broadcasts CLIENT_DISCONNECTED
\* with a totalClients that does not count it.
C11_CloseRemovesAdmitted ==
  [][\A c \in Clients :
       /\ (Closes(c) /\ hasClient(clients, c)) =>
            /\ e2h'[c] # << >>
            /\ e2h'[c][Len(e2h'[c])].type = "CLIENT_DISCONNECTED"
       /\ (HubTakes(c, "CLIENT_DISCONNECTED") /\ hasClient(clients, c)) =>
            /\ ~hasClient(clients', c)
            /\ \A d \in Clients :
                 (hasClient(clients', d) /\ port[d]) =>
                   Posted(d) = <<Membership("CLIENT_DISCONNECTED", c,
                                            Len(Remove(clients, c)))>>]_vars

\* The types of the envelopes that announce an admission or a removal
MembershipTypes == {"CLIENT_CONNECTED", "CLIENT_DISCONNECTED"}

\* C12: every CLIENT_CONNECTED and CLIENT_DISCONNECTED envelope the Hub
\* posts carries, as totalClients, the size of the registry as the admission
\* or removal of that step has left it.
C12_TotalIsPostChangeCount ==
  [][\A d \in Clients : \A i \in 1..Len(Posted(d)) :
       Posted(d)[i].type \in MembershipTypes =>
         Posted(d)[i].payload.totalClients = Len(clients')]_vars

\* An Edge holds the broadcast of a removal that left one client, after an
\* admission that made two.
C12_Witness ==
  \E d \in Clients : \E i, j \in 1..Len(h2e[d]) :
    /\ i < j
    /\ h2e[d][i].type = "CLIENT_CONNECTED" /\ h2e[d][i].payload.totalClients = 2
    /\ h2e[d][j].type = "CLIENT_DISCONNECTED" /\ h2e[d][j].payload.totalClients = 1
    /\ Len(clients) = 1

\* C13: on CLIENT_CONNECTED from Edge c the Hub registers c and posts to c,
\* in this order, a STATE_UPDATE with the default CallState and the
\* CLIENT_CONNECTED broadcast {clientId: c, totalClients}; every other
\* registered Edge gets the broadcast alone. The channel is FIFO, so c takes
\* the STATE_UPDATE before the broadcast of its own admission.
C13_StateUpdateThenBroadcast ==
  [][\A c \in Clients :
       HubTakes(c, "CLIENT_CONNECTED") =>
         /\ hasClient(clients', c)
         /\ port[c] =>
              /\ Len(Posted(c)) = 2
              /\ Posted(c)[1].type = "STATE_UPDATE"
              /\ Posted(c)[1].payload.state = "none"
              /\ Posted(c)[1].payload.data = "hasActiveCall:false,activeCall:null"
              /\ Posted(c)[2] = Membership("CLIENT_CONNECTED", c, Len(clients'))
         /\ \A d \in Clients \ {c} :
              (hasClient(clients', d) /\ port[d]) =>
                Posted(d) = <<Membership("CLIENT_CONNECTED", c, Len(clients'))>>]_vars

\* Edge c holds the STATE_UPDATE and, behind it, the broadcast of its own
\* admission, while another Edge is registered.
C13_Witness ==
  \E c \in Clients :
    /\ Len(h2e[c]) >= 2
    /\ h2e[c][Len(h2e[c]) - 1].type = "STATE_UPDATE"
    /\ h2e[c][Len(h2e[c])] = Membership("CLIENT_CONNECTED", c, 2)

----------------------------------------------------------------------------
\* The Hub's guards against envelopes of pages it has not admitted (HubSpec)

\* The ports such a page holds.
RawPorts == Clients \ SipUsers

\* The clientId such a page puts into its envelopes: none, or the id of
\* the Edge of its port, admitted or not.
RawIds == RawPorts \cup {""}

\* A page that holds a port of the worker and posts on it without a
\* SipClient: one envelope type for each destination behind handleMessage,
\* with a clientId that is missing ("") or names an Edge, admitted or not.
RawEnvelopes ==
  {Envelope("CLIENT_DISCONNECTED", id, Key("raw", 1), "", "") : id \in RawIds}
  \cup {Envelope("REQUEST", id, Key("raw", 1), "echo", "msg_hi") : id \in RawIds}
  \cup {Envelope("REQUEST_SIP_INIT", id, Key("raw", 1), "", "ok") : id \in RawIds}
  \cup {Envelope("CONNECTION_STATE_CHANGE", id, Key("raw", 1), "",
                 [NoSdpPayload EXCEPT !.sessionId = h, !.state = "connected"]) :
          id \in RawIds, h \in Sessions}

\* Envelopes an Edge has not handled yet when such a page posts.
MaxBacklog == 0

\* port.postMessage(m) by such a page, on the port the Hub knows as c's
postRaw(c, m) ==
  /\ Len(e2h[c]) < MaxInFlight
  /\ \A d \in Clients : Len(h2e[d]) <= MaxBacklog
  /\ e2h' = [e2h EXCEPT ![c] = Append(@, m)]
  /\ UNCHANGED <<hubBuild, bridgeVars, edgeVars, h2e, clients, sipVars, received>>

\* handleMessage, default: a type the build has no case for is logged and
\* dropped; build "index" has no case for the bridge's envelopes
handleUnhandled(c) ==
  /\ hubBuild = "index"
  /\ e2h[c] # << >>
  /\ Head(e2h[c]).type \in BridgeTypes
  /\ e2h' = [e2h EXCEPT ![c] = Tail(@)]
  /\ UNCHANGED <<hubBuild, bridgeVars, edgeVars, h2e, clients, sipVars, received>>

\* The Hub under pages that post raw envelopes: admission, the raw posts,
\* the cases of handleMessage that lead to the registry, the message
\* handler, the SIP manager and the bridge's factory, and the Edges'
\* handlers of the replies
HubNext ==
  \/ Admission
  \/ Rpc
  \/ \E c \in RawPorts : \E m \in RawEnvelopes : postRaw(c, m)
  \/ \E c \in Clients : handleUnhandled(c)
  \/ \E c \in Clients : HubSipInitIndex(c)
  \/ \E c \in Clients : HubSipInit015(c)
  \/ \E c \in Clients : handleSipInitResult(c)
  \/ \E h \in Sessions, cid \in RawIds : create(h, cid)
  \/ \E c \in Clients : handleSdpMessage(c)

HubSpec == Init /\ [][HubNext]_vars

\* The Hub takes from port c an envelope other than CLIENT_CONNECTED whose
\* clientId is missing or is not in the registry.
TakesUnadmitted(c) ==
  /\ e2h[c] # << >>
  /\ e2h'[c] = Tail(e2h[c])
  /\ Head(e2h[c]).type # "CLIENT_CONNECTED"
  /\ ~InSeq(Head(e2h[c]).clientId, clients)

\* C14: an envelope other than CLIENT_CONNECTED whose clientId is missing
\* or not in the registry is dropped: the registry, the SIP manager's state
\* and the bridge's factory and handlers stay as they are and no envelope
\* is posted to any Edge.
C14_UnadmittedDropped ==
  [][\A c \in Clients :
       TakesUnadmitted(c) => UNCHANGED <<clients, sipVars, bridgeVars, h2e>>]_vars

\* An Edge is admitted and a session's handler exists; the Edge of the raw
\* port was admitted, had a REQUEST_SIP_INIT delivered and was removed, and
\* the Hub is about to take another REQUEST_SIP_INIT that names it.
C14_Witness ==
  /\ clients # << >>
  /\ userAgent
  /\ \E h \in Sessions : activeSessions[h] # "none"
  /\ \E c \in Clients :
       /\ e2h[c] # << >>
       /\ Head(e2h[c]).type = "REQUEST_SIP_INIT"
       /\ Head(e2h[c]).clientId \in Clients
       /\ ~InSeq(Head(e2h[c]).clientId, clients)

----------------------------------------------------------------------------
\* Properties of the Hub's REQUEST handlers

\* The RESPONSE envelopes the Hub posts to Edge d in this step.
Responses(d) == SelectSeq(Posted(d), LAMBDA m : m.type = "RESPONSE")

\* The Hub takes a REQUEST of an admitted Edge whose port is open.
TakesRequest(c) ==
  /\ HubTakes(c, "REQUEST")
  /\ hasClient(clients, Head(e2h[c]).clientId)
  /\ port[Head(e2h[c]).clientId]

\* C15: on a REQUEST of an admitted Edge, whatever its action, the Hub
\* posts exactly one RESPONSE to that Edge, and the RESPONSE carries the
\* request's requestId in its payload.
C15_OneResponsePerRequest ==
  [][\A c \in Clients :
       TakesRequest(c) =>
         /\ Len(Responses(Head(e2h[c]).clientId)) = 1
         /\ Responses(Head(e2h[c]).clientId)[1].payload.requestId
              = Head(e2h[c]).requestId]_vars

\* The actions neither build of the Hub has a case for, among the Actions
\* of the model.
UnknownActions == Actions \ {"echo", "getConnectedClients", "makeCall",
                             "hangupCall", "answerCall", "sendDtmf", "setMuted"}

\* C16: on a REQUEST whose action has no handler the Hub posts exactly one
\* RESPONSE to the requesting Edge, with the request's requestId,
\* success=false and the error "Unknown request action: <action>", and
\* leaves the registry, the SIP manager and the bridge as they are.
C16_UnknownActionRejected ==
  [][\A c \in Clients :
       (TakesRequest(c) /\ Head(e2h[c]).action \in UnknownActions) =>
         /\ Len(Responses(Head(e2h[c]).clientId)) = 1
         /\ Responses(Head(e2h[c]).clientId)[1].payload.requestId
              = Head(e2h[c]).requestId
         /\ Responses(Head(e2h[c]).clientId)[1].payload.success = "false"
         /\ Responses(Head(e2h[c]).clientId)[1].payload.error
              = "Unknown request action: " \o Head(e2h[c]).action
         /\ UNCHANGED <<clients, sipVars, bridgeVars>>]_vars

\* C17: on a REQUEST with action "echo" the Hub posts to the requesting
\* Edge a RESPONSE with the request's requestId, success=true and, as data,
\* the request's payload, whatever the payload is.
C17_EchoReturnsPayload ==
  [][\A c \in Clients :
       (TakesRequest(c) /\ Head(e2h[c]).action = "echo") =>
         /\ Len(Responses(Head(e2h[c]).clientId)) = 1
         /\ Responses(Head(e2h[c]).clientId)[1].payload.requestId
              = Head(e2h[c]).requestId
         /\ Responses(Head(e2h[c]).clientId)[1].payload.success = "true"
         /\ Responses(Head(e2h[c]).clientId)[1].payload.data
              = Head(e2h[c]).payload]_vars

----------------------------------------------------------------------------
\* Properties of initialize() (Spec)

\* The connectTimeout of Edge c's initialize() fired before any STATE_UPDATE
\* was handled: the returned promise was rejected by the timer.
InitTimedOut(c) ==
  /\ InitKey \in DOMAIN promises[c]
  /\ promises[c][InitKey] # << >>
  /\ promises[c][InitKey][1].by = "timer"

\* C18: an Edge whose initialize() was rejected by its connectTimeout is
\* not connected, and stays so when a STATE_UPDATE arrives afterwards.
C18_TimedOutStaysUnconnected ==
  \A c \in Clients : InitTimedOut(c) => ~connected[c]


----------------------------------------------------------------------------
\* The SIP stack's description calls on the bridge handlers (DescSpec)

\* The session descriptions of the model
Sdps == {"sdp_1", "sdp_2"}

\* The replies a page gives to a request of a session in the documented
\* shape: a description, or the error of a media failure
DescReplies(h, key) ==
  {Envelope("SDP_RESPONSE", "", NoKey, "",
     [NoSdpPayload EXCEPT !.sessionId = h, !.response = SdpResponse(key, v[1], v[2])]) :
       v \in {<<s, Undefined>> : s \in Sdps} \cup {<<Undefined, "MediaFailure">>}}

\* The page's listener is called with an SDP_REQUEST and passes a reply m in
\* the documented shape to SipClient.sendMessage
answerSdpRequest(c, m) ==
  /\ Inbox(c, "SDP_REQUEST")
  /\ Len(e2h[c]) < MaxInFlight
  /\ m \in DescReplies(Head(h2e[c]).payload.sessionId,
                        Head(h2e[c]).payload.request.requestId)
  /\ h2e' = [h2e EXCEPT ![c] = Tail(@)]
  /\ e2h' = sendMessage(e2h, c, m)
  /\ UNCHANGED <<hubBuild, bridgeVars, edgeVars, clients, sipVars, received>>

\* The page's listener is called with an SDP_REQUEST and gives no reply
ignoreSdpRequest(c) ==
  /\ Inbox(c, "SDP_REQUEST")
  /\ h2e' = [h2e EXCEPT ![c] = Tail(@)]
  /\ UNCHANGED <<hubBuild, bridgeVars, edgeVars, e2h, clients, sipVars, received>>

Desc ==
  \/ \E h \in Sessions, cid \in SipUsers \cup {""}, trickle \in BOOLEAN :
       createWith(h, cid, trickle)
  \/ \E h \in Sessions : getDescription(h)
  \/ \E h \in Sessions : \E sdp \in {"sdp_remote"} : setDescription(h, sdp)
  \/ \E h \in Sessions : iceGatheringWaited(h)
  \/ \E h \in Sessions : sdhClose(h)
  \/ \E h \in Sessions : \E key \in sdhTimers[h] : sdhTimerFire(h, key)
  \/ \E c \in SipUsers : handleSdpMessage(c)
  \/ \E c \in SipUsers, h \in Sessions : \E k \in DOMAIN sdhPromises[h] :
       \E m \in DescReplies(h, k) : answerSdpRequest(c, m)
  \/ \E c \in SipUsers : ignoreSdpRequest(c)

\* The page that drives the calls opens and closes its SipClient
DescAdmission ==
  \/ \E c \in SipUsers : initialize(c)
  \/ \E c \in SipUsers : close(c)
  \/ \E c \in SipUsers : \E key \in timers[c] : TimerFire(c, key)
  \/ \E c \in SipUsers : handleStateUpdate(c)
  \/ \E c \in SipUsers : handleOtherMessage(c)
  \/ \E c \in SipUsers : handleClientInit(c)
  \/ \E c \in SipUsers : handleClientDisconnect(c)

DescNext == DescAdmission \/ Desc

DescSpec == BridgeInit /\ [][DescNext]_vars

----------------------------------------------------------------------------
\* Properties of the handlers' description calls (DescSpec)

\* close() is called on handler h in this step
ClosesHandler(h) == ~sdhClosed[h] /\ sdhClosed'[h]

\* The envelopes the Hub posts in this step, to whatever Edge
PostedToAll == UNION {{Posted(d)[i] : i \in 1..Len(Posted(d))} : d \in Clients}

\* The number of envelopes the Hub posts in this step
PostedCount ==
  Cardinality(UNION {{<<d, i>> : i \in 1..Len(Posted(d))} : d \in Clients})

\* C19: close() marks the handler closed, rejects every request pending at
\* that moment and posts at most one envelope, the CLOSE request, which
\* reaches the Edge when a registered one with an open port can be
\* selected; on a closed
\* handler getDescription() and setDescription() are rejected: no
\* description call starts, no remote description is stored and no request
\* is created for them.
C19_CloseRejectsAndSeals ==
  [][\A h \in Sessions :
       /\ ClosesHandler(h) =>
            /\ \A k \in DOMAIN sdhPromises[h] :
                 InSeq(k, sdhPending[h]) =>
                   /\ sdhPromises[h][k] = << >>
                   /\ sdhPromises'[h][k] =
                        <<Call("close", FALSE, "SessionDescriptionHandler closed")>>
                   /\ ~InSeq(k, sdhPending'[h])
            /\ PostedCount <= 1
            /\ \A m \in PostedToAll :
                 /\ m.type = "SDP_REQUEST"
                 /\ m.payload.sessionId = h
                 /\ m.payload.request.operation = "close"
            /\ (/\ SelectClient(h) # ""
                /\ InSeq(SelectClient(h), clients)
                /\ port[SelectClient(h)]) => PostedCount = 1
       /\ sdhClosed[h] =>
            /\ sdhClosed'[h]
            /\ descTask[h].phase = "none" => descTask'[h].phase = "none"
            /\ remoteDescription'[h] = NoDescription
            /\ descTask[h].phase # "gathering" =>
                 /\ DOMAIN sdhPromises'[h] = DOMAIN sdhPromises[h]
                 /\ \A m \in PostedToAll :
                      ~(m.type = "SDP_REQUEST" /\ m.payload.sessionId = h)]_vars

\* A closed handler whose close() rejected a pending request and posted
\* CLOSE, and on which both description calls were made afterwards
C19_Witness ==
  \E h \in Sessions :
    /\ sdhClosed[h]
    /\ closedRejections[h] = {"getDescription", "setDescription"}
    /\ \E k \in DOMAIN sdhPromises[h] :
         sdhPromises[h][k] =
           <<Call("close", FALSE, "SessionDescriptionHandler closed")>>
    /\ \E d \in Clients : \E i \in 1..Len(h2e[d]) :
         /\ h2e[d][i].type = "SDP_REQUEST"
         /\ h2e[d][i].payload.request.operation = "close"

\* The SDP_REQUEST envelopes of session h the Hub posts in this step
RequestsPosted(h) ==
  {m \in PostedToAll : m.type = "SDP_REQUEST" /\ m.payload.sessionId = h}

\* The Hub takes the reply of the Edge to the request getDescription() of
\* handler h awaits, from the Edge the handler is stored under
TakesReply(c, h) ==
  /\ Arrived(c, "SDP_RESPONSE")
  /\ e2h'[c] = Tail(e2h[c])
  /\ hasClient(clients, Head(e2h[c]).clientId)
  /\ Head(e2h[c]).payload.sessionId = h
  /\ Found(Head(e2h[c]).clientId, h)
  /\ AwaitsRequest(descTask[h])
  /\ Head(e2h[c]).payload.response.requestId = descTask[h].key

\* C20: getDescription() asks CREATE_OFFER of the Edge when the handler
\* holds no remote description and CREATE_ANSWER otherwise; a
\* setLocalDescription request is posted only on the Edge's successful reply
\* to that first request, once, and carries the description of the reply;
\* in trickle mode the body the call resolves with is the SDP of that reply.
C20_OfferThenSetLocal ==
  [][\A h \in Sessions :
       \* the call: the first request
       /\ (descTask[h].phase = "none" /\ descTask'[h].phase # "none") =>
            /\ \A m \in RequestsPosted(h) :
                 m.payload.request.operation =
                   (IF remoteDescription[h] = NoDescription
                    THEN "createOffer" ELSE "createAnswer")
            /\ descTask'[h].phase = "create" =>
                 (port[sdhClientId'[h]] => Cardinality(RequestsPosted(h)) = 1)
       \* the await of the first request is never entered again
       /\ (descTask'[h].phase = "create" /\ descTask[h].phase # "create")
            => descTask[h].phase = "none"
       \* setLocalDescription is posted on the reply to the first request
       /\ \A m \in RequestsPosted(h) :
            m.payload.request.operation = "setLocalDescription" =>
              /\ descTask[h].phase = "create"
              /\ descTask'[h].phase = "setLocal"
              /\ PostedCount = 1
              /\ \E c \in Clients :
                   /\ TakesReply(c, h)
                   /\ m.payload.request.data =
                        (IF descTask[h].isOffer THEN "offer" ELSE "answer")
                          \o ":" \o Head(e2h[c]).payload.response.result
       \* a successful reply to the first request posts it
       /\ \A c \in Clients :
            (/\ TakesReply(c, h)
             /\ descTask[h].phase = "create"
             /\ ~Defined(Head(e2h[c]).payload.response.error)
             /\ port[sdhClientId[h]] /\ InSeq(sdhClientId[h], clients))
            => \E m \in RequestsPosted(h) :
                 m.payload.request.operation = "setLocalDescription"
       \* the body in trickle mode
       /\ (/\ trickleCandidates[h]
           /\ Len(descPromise'[h]) > Len(descPromise[h])
           /\ descPromise'[h][Len(descPromise'[h])].ok)
            => /\ descTask[h].phase = "setLocal"
               /\ sdhPromises[h][descTask[h].first] # << >>
               /\ sdhPromises[h][descTask[h].first][1].ok
               /\ descPromise'[h][Len(descPromise'[h])].value =
                    sdhPromises[h][descTask[h].first][1].value]_vars

\* A handler in trickle mode that held a remote description when
\* getDescription() was called, and whose call resolved
C20_Witness ==
  \E h \in Sessions :
    /\ trickleCandidates[h]
    /\ ~descTask[h].isOffer
    /\ descTask[h].phase = "settled"
    /\ descPromise[h] # << >>
    /\ descPromise[h][1].ok
    /\ descPromise[h][1].value \in Sdps

----------------------------------------------------------------------------
\* Remote descriptions and ICE gathering (IceSpec)

\* PeerConnectionManager.handleIceCandidate(event) and onicecandidate of
\* src/src/demo/index.ts with a null event.candidate, the end of the
\* gathering: nothing is sent
peerGatheringComplete(c) ==
  /\ port[c]
  /\ pcGathering[c] # "complete"
  /\ pcGathering' = [pcGathering EXCEPT ![c] = "complete"]
  /\ UNCHANGED <<hubBuild, edgeVars, chanVars, clients, sipVars, received,
                 activeSessions, sdhClientId, sdhClosed, sdhPending, sdhTimers,
                 sdhPromises, iceCandidates, connectionState, descVars,
                 iceGatheringState, gatheringPolls>>

\* The remote descriptions the SIP stack sets: an offer and its answer
RemoteSdps == {"sdp_offer", "sdp_answer"}

\* The ICE_CANDIDATE envelopes a page passes to SipClient.sendMessage in the
\* documented shape: a candidate of the session, or null at the end of the
\* gathering
IceEnvelopes(h) ==
  {Envelope("ICE_CANDIDATE", "", NoKey, "",
     [NoSdpPayload EXCEPT !.sessionId = h, !.candidate = x]) :
       x \in {y \in {"cand_1", Null} :
                \/ y = Null /\ iceGatheringState[h] # "complete"
                \/ y # Null /\ 2 * CandidatesInFlight(h) + Len(iceCandidates[h]) + 2
                                 <= MaxCandidates}}

Ice ==
  \/ \E h \in Sessions, cid \in SipUsers \cup {""}, trickle \in BOOLEAN :
       createWith(h, cid, trickle)
  \/ \E h \in Sessions : \E sdp \in RemoteSdps : setDescription(h, sdp)
  \/ \E h \in Sessions : sdhClose(h)
  \/ \E h \in Sessions : \E key \in sdhTimers[h] : sdhTimerFire(h, key)
  \/ \E c \in SipUsers : handleSdpMessage(c)
  \/ \E c \in SipUsers : ignoreSdpRequest(c)
  \/ \E c \in SipUsers : peerIceCandidate(c)
  \/ \E c \in SipUsers : peerGatheringComplete(c)
  \/ \E c \in SipUsers, h \in Sessions : \E m \in IceEnvelopes(h) : sendSdpEnvelope(c, m)

IceNext == DescAdmission \/ Ice

IceSpec == BridgeInit /\ [][IceNext]_vars

----------------------------------------------------------------------------
\* Properties of remote descriptions and ICE gathering (IceSpec)

\* setDescription() stores a remote description on handler h in this step
SetsRemote(h) ==
  remoteDescription'[h] # remoteDescription[h] /\ remoteDescription'[h] # NoDescription

\* C21: setDescription(sdp) stores the description as an offer when the
\* handler holds no remote description and as an answer otherwise; it
\* empties iceCandidates and resets iceGatheringState to "new" exactly when
\* it stored an offer; the only envelope it posts is one SDP_REQUEST with
\* operation setRemoteDescription carrying the stored description, posted
\* whenever a registered Edge with an open port is selected.
C21_SetDescriptionClassifies ==
  [][\A h \in Sessions :
       SetsRemote(h) =>
         /\ remoteDescription'[h].sdp \in RemoteSdps
         /\ remoteDescription'[h].type =
              (IF remoteDescription[h] = NoDescription THEN "offer" ELSE "answer")
         /\ IF remoteDescription[h] = NoDescription
            THEN iceCandidates'[h] = << >> /\ iceGatheringState'[h] = "new"
            ELSE /\ iceCandidates'[h] = iceCandidates[h]
                 /\ iceGatheringState'[h] = iceGatheringState[h]
         /\ PostedCount <= 1
         /\ \A m \in PostedToAll :
              /\ m.type = "SDP_REQUEST"
              /\ m.payload.sessionId = h
              /\ m.payload.request.operation = "setRemoteDescription"
              /\ m.payload.request.data =
                   remoteDescription'[h].type \o ":" \o remoteDescription'[h].sdp
         /\ (/\ sdhClientId'[h] # ""
             /\ InSeq(sdhClientId'[h], clients)
             /\ port[sdhClientId'[h]]) => PostedCount = 1]_vars

\* A handler that took candidates and the end of the gathering after its
\* offer and then stored an answer
C21_Witness ==
  \E h \in Sessions :
    /\ remoteDescription[h].type = "answer"
    /\ iceCandidates[h] # << >>
    /\ iceGatheringState[h] = "complete"
    /\ \E d \in Clients : \E i \in 1..Len(h2e[d]) :
         /\ h2e[d][i].type = "SDP_REQUEST"
         /\ h2e[d][i].payload.request.operation = "setRemoteDescription"
         /\ h2e[d][i].payload.request.data = "answer:" \o remoteDescription[h].sdp

----------------------------------------------------------------------------
\* Properties of getDescription() without trickle (DescFairSpec)

\* A request timer that is armed expires, and _waitForIceGathering() returns
\* when its iceGatheringTimeout has elapsed at the latest
DescFairSpec ==
  /\ DescSpec
  /\ \A h \in Sessions :
       /\ WF_vars(iceGatheringWaited(h))
       /\ WF_vars(\E key \in sdhTimers[h] : sdhTimerFire(h, key))

\* getDescription() of handler h has been called and its promise is not
\* settled
DescriptionPending(h) ==
  descTask[h].phase \in {"create", "setLocal", "gathering", "complete"}

TakesCandidate(c, h) ==
  /\ HubTakes(c, "ICE_CANDIDATE")
  /\ hasClient(clients, c)
  /\ IsCandidate(Head(e2h[c]).payload.candidate)
  /\ Found(c, h)
  /\ trickleCandidates[h]

\* C23: every candidate the Hub takes from the Edge that owns a session is
\* delivered to the delegate of the session's handler, which records it
\* after the candidates delivered before, so that the candidates reach the
\* delegate in the order the Edge emitted them.
C23_CandidatesDeliveredInOrder ==
  [][\A c \in Clients, h \in Sessions :
       TakesCandidate(c, h) =>
         /\ Len(iceCandidates'[h]) > Len(iceCandidates[h])
         /\ SubSeq(iceCandidates'[h], 1, Len(iceCandidates[h])) = iceCandidates[h]
         /\ iceCandidates'[h][Len(iceCandidates'[h])] =
              Head(e2h[c]).payload.candidate]_vars

\* C24: when the peer connection of a connected Edge finishes gathering,
\* the Edge posts an ICE_CANDIDATE envelope with a null candidate to the
\* Hub.
C24_NullCandidatePosted ==
  [][\A c \in Clients :
       (/\ pcGathering[c] # "complete"
        /\ pcGathering'[c] = "complete"
        /\ connected[c] /\ port[c])
         => /\ Len(e2h'[c]) = Len(e2h[c]) + 1
            /\ e2h'[c][Len(e2h'[c])].type = "ICE_CANDIDATE"
            /\ e2h'[c][Len(e2h'[c])].payload.candidate = Null]_vars

----------------------------------------------------------------------------
\* Properties of the correlation of replies (BridgeSpec)

\* The reply at the head of Edge c's queue finds no pending request: its
\* sender is not registered, it names no session or one that has no handler
\* under its sender, or the handler has no entry for its requestId
Unmatched(c) ==
  LET m == Head(e2h[c])
      h == m.payload.sessionId
  IN \/ ~InSeq(m.clientId, clients)
     \/ h \notin Sessions
     \/ activeSessions[h] # m.clientId
     \/ ~InSeq(m.payload.response.requestId, sdhPending[h])

\* C25: a reply that finds a pending request settles that request once and
\* removes its entry and its timer, so that no second reply finds it; a
\* reply that finds none, a second reply for the same pair included,
\* settles no promise and changes nothing of the bridge or of the Hub.
C25_ReplyConsumedOnce ==
  [][\A c \in Clients :
       HubTakes(c, "SDP_RESPONSE") =>
         IF Unmatched(c)
         THEN UNCHANGED <<bridgeVars, h2e, clients, sipVars>>
         ELSE LET h == Head(e2h[c]).payload.sessionId
                  k == Head(e2h[c]).payload.response.requestId
              IN /\ sdhPromises[h][k] = << >>
                 /\ Len(sdhPromises'[h][k]) = 1
                 /\ sdhPromises'[h][k][1].by = "SDP_RESPONSE"
                 /\ ~InSeq(k, sdhPending'[h])
                 /\ k \notin sdhTimers'[h]
                 /\ \A j \in DOMAIN sdhPromises[h] \ {k} :
                      sdhPromises'[h][j] = sdhPromises[h][j]]_vars

\* A second reply for a request its first reply has settled is about to be
\* taken by the Hub, and so is never found pending
C25_Witness ==
  \E h \in Sessions : \E k \in DOMAIN sdhPromises[h] : \E c \in Clients :
    /\ Len(sdhPromises[h][k]) = 1
    /\ sdhPromises[h][k][1].by = "SDP_RESPONSE"
    /\ sdhPromises[h][k][1].ok
    /\ e2h[c] # << >>
    /\ Head(e2h[c]).type = "SDP_RESPONSE"
    /\ Head(e2h[c]).payload.sessionId = h
    /\ Head(e2h[c]).payload.response.requestId = k
    /\ Defined(Head(e2h[c]).payload.response.error)
    /\ activeSessions[h] = Head(e2h[c]).clientId


----------------------------------------------------------------------------
\* The SIP manager of build "index" (part_004) under repeated connect
\* requests, autoReconnect and disconnect() (ManagerSpec)

\* connectSip() calls of the page
MaxConnects == 2

\* Complete configs, without and with autoReconnect
ManagerConfigs == {"ok", "auto"}

Manager ==
  \/ \E c \in SipUsers, config \in ManagerConfigs : initializeSip(c, config)
  \/ \E c \in SipUsers : connectSipUpTo(c, MaxConnects)
  \/ \E c \in SipUsers : handleSipInitResult(c)
  \/ \E c \in SipUsers : handleSipConnectionUpdate(c)
  \/ \E c \in SipUsers : HubSipInitIndex(c)
  \/ \E c \in SipUsers : HubSipConnectIndex(c)
  \/ TransportConnectedIndex
  \/ TransportFailedIndex
  \/ ConnectionTimeout
  \/ TransportDropped
  \/ disconnect
  \/ reconnectTimeout

ManagerInit == Init /\ hubBuild = "index"

\* The page of the SipUser opens its client and keeps it open; its request
\* timers outlast the run.
ManagerAdmission ==
  \/ \E c \in SipUsers : initialize(c)
  \/ \E c \in SipUsers : handleStateUpdate(c)
  \/ \E c \in SipUsers : handleOtherMessage(c)
  \/ \E c \in SipUsers : handleClientInit(c)

ManagerNext == ManagerAdmission \/ Manager

ManagerSpec == ManagerInit /\ [][ManagerNext]_vars

----------------------------------------------------------------------------
\* Properties of the SIP manager's public operations (SipSpec, ManagerSpec)

\* C26: whenever the promise that SipManager.makeCall() returned to
\* handleMakeCall settles, it is not rejected: a failure of the SIP stack
\* reaches the caller as a value.
C26_ManagerNeverRejects ==
  [][\A ok \in BOOLEAN :
       InviteSettled(ok) => makeCallSettles(ok) # "rejected"]_vars


\* The transport of build "index" reaches Connected in this step
TransportConnects ==
  /\ hubBuild = "index"
  /\ transportState = "Connecting"
  /\ transportState' = "Connected"

\* C27: the promise of a connect() call is settled once and keeps its
\* result; when the transport connects while the call's connectionTimeout
\* is still armed and its promise unsettled, the promise resolves true, a
\* timeout that fires on an unsettled promise resolves it false, and a
\* promise the timeout resolved is not changed by a later onConnect.
C27_ConnectSettlesOnce ==
  [][/\ Len(wrappers') >= Len(wrappers)
     /\ \A j \in 1..Len(wrappers) :
          /\ wrappers[j].result # "none" => wrappers'[j].result = wrappers[j].result
          /\ (TransportConnects /\ wrappers[j].timer /\ wrappers[j].result = "none")
               => wrappers'[j].result = "true"
          /\ (wrappers[j].timer /\ ~wrappers'[j].timer /\ wrappers[j].result = "none")
               => wrappers'[j].result = "false"]_vars


\* C28: with autoReconnect configured and no disconnect() called, a 5 s
\* timeout of onDisconnect that fires while the transport is still
\* disconnected starts a connection attempt or leaves a further timeout
\* armed: the manager keeps retrying until the transport is connected again.
C28_KeepsRetrying ==
  [][(/\ autoReconnect /\ ~disconnectCalled
      /\ reconnectTimers' < reconnectTimers
      /\ transportState = "Disconnected")
       => (transportState' = "Connecting" \/ reconnectTimers' > 0)]_vars

\* C29: once disconnect() has been called, no 5 s timeout of onDisconnect
\* calls userAgent.start() any more.
C29_NoReconnectAfterDisconnect ==
  [][(disconnectCalled /\ reconnectTimers' < reconnectTimers) => ~startsUserAgent]_vars


\* The state a SIP_CONNECTION_UPDATE reports for a TransportState
StateName(state) ==
  CASE state = "Connecting" -> "connecting"
    [] state = "Connected" -> "connected"
    [] OTHER -> "disconnected"

\* C30: in build "part015", in every step that changes the transport state
\* the Hub posts a SIP_CONNECTION_UPDATE with the new state to every
\* registered Edge whose port is open.
C30_ConnectionUpdateToAll ==
  [][(hubBuild = "part015" /\ transportState' # transportState) =>
       \A d \in Clients :
         (hasClient(clients, d) /\ port[d]) =>
           \E i \in (Len(h2e[d]) + 1)..Len(h2e'[d]) :
             /\ h2e'[d][i].type = "SIP_CONNECTION_UPDATE"
             /\ h2e'[d][i].payload.state = StateName(transportState')]_vars


----------------------------------------------------------------------------
\* Repeated initializeSip() and registerSip() calls of one page, on both
\* builds of the Hub (RegisterSpec)

\* initializeSip() calls, and registerSip() calls, of the page
MaxRepeats == 2

Register ==
  \/ \E c \in SipUsers : initializeSipUpTo(c, "ok", MaxRepeats)
  \/ \E c \in SipUsers : connectSip(c)
  \/ \E c \in SipUsers : registerSipUpTo(c, MaxRepeats)
  \/ \E c \in SipUsers : handleSipInitResult(c)
  \/ \E c \in SipUsers : handleSipConnectionUpdate(c)
  \/ \E c \in SipUsers : handleSipRegistrationUpdate(c)
  \/ \E c \in SipUsers : HubSipInitIndex(c)
  \/ \E c \in SipUsers : HubSipInit015(c)
  \/ \E c \in SipUsers : HubSipConnectIndex(c)
  \/ \E c \in SipUsers : HubSipConnect015(c)
  \/ \E c \in SipUsers : HubSipRegisterIndex(c)
  \/ \E c \in SipUsers : HubSipRegister015(c)
  \/ TransportConnectedIndex
  \/ TransportConnected015
  \/ RegistrationAccepted
  \/ RegistrationRejected

RegisterNext == ManagerAdmission \/ Register

RegisterSpec == Init /\ [][RegisterNext]_vars

----------------------------------------------------------------------------
\* An outgoing call of the page on build "part015", from the lifecycle that
\* makes makeCall() ready to the end of the session (CallSpec)

OutgoingCall ==
  \/ \E c \in SipUsers : initializeSip(c, "ok")
  \/ \E c \in SipUsers : connectSip(c)
  \/ \E c \in SipUsers : registerSip(c)
  \/ \E c \in SipUsers : makeCall(c)
  \/ \E c \in SipUsers : handleSipInitResult(c)
  \/ \E c \in SipUsers : handleSipConnectionUpdate(c)
  \/ \E c \in SipUsers : handleSipRegistrationUpdate(c)
  \/ \E c \in SipUsers : HubSipInit015(c)
  \/ \E c \in SipUsers : HubSipConnect015(c)
  \/ \E c \in SipUsers : HubSipRegister015(c)
  \/ \E c \in SipUsers : HubRequest(c)
  \/ \E ok \in BOOLEAN : InviteSettled(ok)
  \/ \E i \in CallIds, state \in SessionStates : sessionStateChange(i, state)
  \/ TransportConnected015
  \/ RegistrationAccepted

CallNext == ManagerAdmission \/ OutgoingCall

CallSpec == BridgeInit /\ [][CallNext]_vars

----------------------------------------------------------------------------
\* Properties of the Hub's lifecycle envelopes (SipSpec, RegisterSpec)

\* The envelopes that report a phase of the SIP lifecycle
LifecycleTypes ==
  {"SIP_INIT_RESULT", "SIP_CONNECTION_UPDATE", "SIP_REGISTRATION_UPDATE"}

\* C31: every lifecycle envelope in flight to an Edge whose payload.state
\* is "failed" has a non-empty payload.error.
C31_FailedCarriesError ==
  \A d \in Clients : \A i \in 1..Len(h2e[d]) :
    (h2e[d][i].type \in LifecycleTypes /\ h2e[d][i].payload.state = "failed")
      => h2e[d][i].payload.error # ""


\* The Hub handles a REQUEST_REGISTER of Edge c and register() gets as far
\* as its registerer
UsesRegisterer(c) ==
  /\ Arrived(c, "REQUEST_REGISTER")
  /\ e2h'[c] = Tail(e2h[c])
  /\ hasClient(clients, Head(e2h[c]).clientId)
  /\ userAgent
  /\ hubBuild = "index" => isConnected

\* C35: the registerer a register() call uses belongs to the UserAgent of
\* the last initialize(): it is not the registerer of a UserAgent that was
\* replaced or stopped by a re-initialization.
C35_RegistererOfCurrentUserAgent ==
  [][\A c \in Clients :
       UsesRegisterer(c) => (~registererStale' /\ registererState' # "Terminated")]_vars


\* The trajectory of an outgoing call
CallTrajectory == <<"creating", "calling", "connecting", "connected", "ended">>

\* C32: for every callId the states of the CALL_UPDATE envelopes the Hub
\* sent so far are a prefix of creating, calling, connecting, connected,
\* ended.
C32_CallUpdatesMonotonic ==
  \A k \in 1..Len(callUpdates) :
    /\ Len(callUpdates[k]) <= Len(CallTrajectory)
    /\ callUpdates[k] = SubSeq(CallTrajectory, 1, Len(callUpdates[k]))


----------------------------------------------------------------------------
\* The choice of the Edge a handler sends its requests to, with two pages
\* open (PinSpec)

\* Both pages open their clients and keep them open
PinAdmission ==
  \/ \E c \in Clients : initialize(c)
  \/ \E c \in Clients : handleStateUpdate(c)
  \/ \E c \in Clients : handleOtherMessage(c)
  \/ \E c \in Clients : handleClientInit(c)

Pin ==
  \/ \E h \in Sessions, cid \in Clients \cup {""} : create(h, cid)
  \/ \E h \in Sessions, cid \in Clients : setClientId(h, cid)
  \/ \E h \in Sessions : sendDtmf(h)
  \/ \E h \in Sessions : \E key \in sdhTimers[h] : sdhTimerFire(h, key)
  \/ \E c \in Clients : ignoreSdpRequest(c)

PinNext == PinAdmission \/ Pin

PinSpec == BridgeInit /\ [][PinNext]_vars

\* The Edges that get an SDP_REQUEST of session h posted in this step
PostedTo(h) ==
  {d \in Clients :
     \E i \in (Len(h2e[d]) + 1)..Len(h2e'[d]) :
       /\ h2e'[d][i].type = "SDP_REQUEST"
       /\ h2e'[d][i].payload.sessionId = h}

\* C33: a request of a handler that has no clientId goes to the first
\* registered Edge, which becomes the handler's clientId; every request of
\* a handler with a clientId goes to the Edge it names, and the clientId
\* does not change while a request of the handler is pending.
C33_RequestsPinned ==
  [][\A h \in Sessions :
       /\ (PostedTo(h) # {} /\ sdhClientId[h] = "")
            => (PostedTo(h) = {clients[1]} /\ sdhClientId'[h] = clients[1])
       /\ (PostedTo(h) # {} /\ sdhClientId[h] # "")
            => PostedTo(h) = {sdhClientId[h]}
       /\ (sdhClientId[h] # "" /\ sdhPending[h] # << >>)
            => sdhClientId'[h] = sdhClientId[h]]_vars


----------------------------------------------------------------------------
\* Properties of the handlers' pending requests and descriptions
\* (BridgeSpec, DescSpec, IceSpec)

\* C34: in the step in which the Hub unregisters an Edge, no request that a
\* handler sent to that Edge stays pending: the handler's pendingRequests
\* and its request timers hold no entry any more.
C34_PendingEndsWithChannel ==
  [][\A d \in Clients :
       (hasClient(clients, d) /\ ~hasClient(clients', d)) =>
         \A h \in Sessions :
           sdhClientId[h] = d => (sdhPending'[h] = << >> /\ sdhTimers'[h] = {})]_vars


\* C36: a handler that holds a local and a remote description holds one
\* offer and one answer.
C36_OfferAnswerComplementary ==
  \A h \in Sessions :
    (localDescription[h] # NoDescription /\ remoteDescription[h] # NoDescription)
      => {localDescription[h].type, remoteDescription[h].type} = {"offer", "answer"}


\* C37: a handler that is closed creates no request and posts no
\* SDP_REQUEST any more, and its pendingRequests gets no new entry.
C37_ClosedSendsNothing ==
  [][\A h \in Sessions :
       sdhClosed[h] =>
         /\ RequestsPosted(h) = {}
         /\ DOMAIN sdhPromises'[h] = DOMAIN sdhPromises[h]
         /\ \A k \in DOMAIN sdhPromises[h] :
              InSeq(k, sdhPending'[h]) => InSeq(k, sdhPending[h])]_vars


\* The Hub hands a candidate of Edge c to handleIceCandidate of the trickle
\* handler h: the envelope names the session
HandlesCandidate(c, h) ==
  /\ TakesCandidate(c, h)
  /\ Head(e2h[c]).payload.sessionId = h

\* C38: in trickle mode every non-null candidate that reaches the handler
\* of its session is recorded exactly once: the handler's iceCandidates
\* list grows by exactly one entry, the candidate received.
C38_CandidateRecordedOnce ==
  [][\A c \in Clients, h \in Sessions :
       HandlesCandidate(c, h) =>
         iceCandidates'[h] =
           Append(iceCandidates[h], Head(e2h[c]).payload.candidate)]_vars

----------------------------------------------------------------------------
\* _waitForIceGathering() and its polls (GatherSpec)

\* The ICE_CANDIDATE envelope with a null candidate, the end of the
\* gathering, for session h
GatheringEnded(h) == {m \in IceEnvelopes(h) : m.payload.candidate = Null}

\* Handlers without trickle ask a description, the page answers their
\* requests and reports the end of the gathering
Gather ==
  \/ \E h \in Sessions, cid \in SipUsers : createWith(h, cid, FALSE)
  \/ \E h \in Sessions : getDescription(h)
  \/ \E h \in Sessions : iceGatheringWaited(h)
  \/ \E h \in Sessions : checkState(h)
  \/ \E h \in Sessions : \E key \in sdhTimers[h] : sdhTimerFire(h, key)
  \/ \E c \in SipUsers : handleSdpMessage(c)
  \/ \E c \in SipUsers, h \in Sessions : \E k \in DOMAIN sdhPromises[h] :
       \E m \in DescReplies(h, k) : answerSdpRequest(c, m)
  \/ \E c \in SipUsers, h \in Sessions : \E m \in GatheringEnded(h) :
       sendSdpEnvelope(c, m)

GatherNext == ManagerAdmission \/ Gather

GatherSpec == BridgeInit /\ [][GatherNext]_vars

\* C39: a checkState poll of _waitForIceGathering() is scheduled only while
\* the getDescription() call that waits for the gathering is still waiting:
\* once the wait has resolved, by the state "complete" or by
\* iceGatheringTimeout, no poll stays scheduled.
C39_NoPollAfterWait ==
  \A h \in Sessions : gatheringPolls[h] => descTask[h].phase = "gathering"

----------------------------------------------------------------------------
\* The Edges' phase flags and the Hub's SIP state (SipSpec)

\* Edge c handles an envelope of the given type in this step, and no
\* envelope is in flight after it
HandlesLast(c, type) ==
  /\ Inbox(c, type)
  /\ h2e'[c] = Tail(h2e[c])
  /\ connected'[c]
  /\ \A d \in Clients : h2e'[d] = << >> /\ e2h'[d] = << >>

\* SipClient's reading of an update that reports the phase reached:
\* payload.state is the phase's state or payload.success is true
Reports(payload, state) == payload.state = state \/ payload.success = "true"

\* C40: when an admitted Edge has handled the last envelope in flight and
\* that envelope is a SIP_CONNECTION_UPDATE, its sipConnected is true
\* exactly when the update reported "connected"; when it is a
\* SIP_REGISTRATION_UPDATE, its sipRegistered is true exactly when the
\* update reported "registered" - whether or not the Edge issued the request.
C40_FlagsAgreeWithHub ==
  [][\A c \in Clients :
       /\ HandlesLast(c, "SIP_CONNECTION_UPDATE") =>
            (sipConnected'[c] <=> Reports(Head(h2e[c]).payload, "connected"))
       /\ HandlesLast(c, "SIP_REGISTRATION_UPDATE") =>
            (sipRegistered'[c] <=> Reports(Head(h2e[c]).payload, "registered"))]_vars

====
